---- MODULE Spec2Model ----
(***************************************************************************)
(* Model of the browser image compressor, src/src/utils/compressImage.ts.  *)
(*                                                                         *)
(* One call of compressImage is a sequential process whose suspension      *)
(* points are the awaits of the code: the batch of format probes, the      *)
(* decode of the input and every canvas.toBlob.  The collaborators         *)
(* (prober, decoder, encoder) are the environment: their answers are drawn *)
(* from small sets.                                                        *)
(*                                                                         *)
(* Other calls of compressImage running at the same time share nothing     *)
(* with this one but the module-level format-support cache: they appear as *)
(* the probes they have in flight and the cache entries these write.       *)
(*                                                                         *)
(* The Node variant, src/src/utils/nodeCompress.ts, is a second sequential   *)
(* process with a state of its own; its suspension points are the awaits   *)
(* of pipeline.metadata() and of every pipeline.toBuffer().                *)
(*                                                                         *)
(* Numbers.  Quality factors are exact rationals in units of 1/6400, so    *)
(* that 0.05 and the midpoints of the binary search are integers.  Pixel   *)
(* dimensions are integers; scale factors are fractions <<num, den>>.      *)
(* Byte sizes are integers.                                                *)
(***************************************************************************)
EXTENDS Integers, Sequences, FiniteSets, TLC

VARIABLES
    opts,               \* the options of the call (destructured at lines 66-79)
    input,              \* the File or Blob handed to the call
    runtime,            \* what the host offers: formats, 2d context, encoder
    formatSupportCache, \* module-level Map<ImageFormat, boolean>
    others,             \* formats being probed by other calls of compressImage
    pc,                 \* position of the call
    probes,             \* state of the five isFormatSupported calls
    formatSupport,      \* their results, in the order of the candidate list
    bestFormat,
    imageBitmap,
    origWidth, origHeight,
    newWidth, newHeight,
    attempts,
    bestBlob,           \* bestBlob of the retry loop (line 226)
    low, high,          \* binary search of encodeWithBestQuality
    searchBlob,         \* bestBlob of encodeWithBestQuality (line 147)
    canvas,             \* the canvas last drawn
    outcome,            \* pending, the returned File, or the error thrown
    hist,               \* history: what the call has done so far
    nodeOptions,        \* the options of a call of nodeCompress
    fileBuffer,         \* the buffer handed to it
    sharpRuntime,       \* what sharp offers: output formats, encoder
    nodePc,             \* position of the call of nodeCompress
    currentQuality,
    compressedBuffer,   \* the buffer last encoded (line 171)
    nodeOutcome,        \* pending, the returned Buffer, or the error thrown
    nodeHist            \* history: the encodes of the call so far

cfgVars    == <<opts, input, runtime>>
probeVars  == <<formatSupportCache, probes, formatSupport>>
geomVars   == <<imageBitmap, origWidth, origHeight, newWidth, newHeight>>
searchVars == <<low, high, searchBlob>>
vars == <<opts, input, runtime, formatSupportCache, others, pc, probes, formatSupport,
          bestFormat, imageBitmap, origWidth, origHeight, newWidth, newHeight,
          attempts, bestBlob, low, high, searchBlob, canvas, outcome, hist,
          nodeOptions, fileBuffer, sharpRuntime, nodePc, currentQuality,
          compressedBuffer, nodeOutcome, nodeHist>>

\* The state of a call of compressImage, with the cache, and that of a call of
\* nodeCompress.
browserVars == <<opts, input, runtime, formatSupportCache, others, pc, probes,
                 formatSupport, bestFormat, imageBitmap, origWidth, origHeight,
                 newWidth, newHeight, attempts, bestBlob, low, high, searchBlob,
                 canvas, outcome, hist>>
nodeVars == <<nodeOptions, fileBuffer, sharpRuntime, nodePc, currentQuality,
              compressedBuffer, nodeOutcome, nodeHist>>

---------------------------------------------------------------------------
(* Values *)

Formats      == {"webp", "jpeg", "png", "avif"}
LossyFormats == {"jpeg", "webp", "avif"}
ResizeModes  == {"contain", "cover", "fill", "inside", "outside"}

\* A quality factor given in hundredths: Q(90) is 0.9, Q(100) is 1.
Q(hundredths) == hundredths * 64

\* Mutant: one attempt too many (attempts <= maxAttempts).
maxAttemptsOffByOne == 3 + 1
maxAttempts == 3

NoBlob   == [size |-> -1, type |-> "null", quality |-> -1]
NoCanvas == [width |-> -1, height |-> -1,
             rect |-> [dx |-> <<0, 1>>, dy |-> <<0, 1>>, dw |-> <<0, 1>>, dh |-> <<0, 1>>]]
NoFormat == "none"

\* Error messages of the code.
ErrContext   == "Failed to get canvas context"
ErrEncode    == "Compression failed for"
ErrPngLarge  == "PNG image too large - consider using a lossy format or reducing dimensions"
\* Mutant: the search ends with the message of a failed encode.
ErrSizeAsEncodeFailure == "Compression failed within size constraints"
ErrSize      == "Failed to compress image within size constraints"
ErrNoOutput  == "Failed to compress image - no valid output generated"
ErrDecode    == "createImageBitmap rejected"

---------------------------------------------------------------------------
(* Derived option values, lines 84-86 *)

\* Mutant: kilobytes and kibibytes mixed up.
maxSizeBytesMixedUnits == opts.maxSizeMB * 1024 * 1025
maxHeightAdjusted == IF opts.maxHeight = 0 THEN opts.maxWidth ELSE opts.maxHeight
maxSizeBytes      == opts.maxSizeMB * 1024 * 1024

\* Mutant: the retry keeps the dimensions.
DownscaleNone(x) == x
\* Mutant: Math.round in place of Math.floor.
DownscaleRounded(x) == (x * 9 + 5) \div 10
\* Math.floor(x * downscaleStep), downscaleStep = 0.9
Downscale(x) == (x * 9) \div 10

\* Mutant: Math.floor in place of Math.round.
RoundDown(n, d) == n \div d
\* Math.round(n / d) for d > 0: floor(n/d + 1/2)
Round(n, d) == (2 * n + d) \div (2 * d)

---------------------------------------------------------------------------
(* Fractions <<num, den>> with num >= 0, den >= 0; den = 0 is Infinity *)

FracLeq(a, b) == a[1] * b[2] <= b[1] * a[2]
FracMin(a, b) == IF FracLeq(a, b) THEN a ELSE b
FracMax(a, b) == IF FracLeq(a, b) THEN b ELSE a
FracEq(a, b)  == a[1] * b[2] = b[1] * a[2]

---------------------------------------------------------------------------
(* Format negotiation *)

\* Mutant: png tried last.
CandidatesPngLast(preferred) == <<preferred, "webp", "avif", "jpeg", "png">>
\* The candidate list of lines 89-95.
Candidates(preferred) == <<preferred, "webp", "avif", "png", "jpeg">>

\* What canvas.toBlob(cb, 'image/<format>', 1) tells the prober (line 29):
\* a blob of the requested type exactly when the runtime can produce it.
ProbeAnswer(format) == format \in runtime.supported

\* Mutant: no default when nothing is supported.
FirstSupportedNoDefault(cands, sup) ==
    LET hits == {i \in 1..Len(cands) : sup[i]}
    IN  IF hits = {} THEN NoFormat
        ELSE cands[CHOOSE i \in hits : \A j \in hits : i <= j]

\* formatSupport.find((f) => f.supported)?.format || 'jpeg'
FirstSupported(cands, sup) ==
    LET hits == {i \in 1..Len(cands) : sup[i]}
    IN  IF hits = {} THEN "jpeg"
        ELSE cands[CHOOSE i \in hits : \A j \in hits : i <= j]

\* Mutant: the first lossy candidate, supported or not.
FirstLossyUnsupported(cands, sup) ==
    LET hits == {i \in 1..Len(cands) : cands[i] # "png" /\ cands[i] \in LossyFormats}
    IN  IF hits = {} THEN NoFormat
        ELSE cands[CHOOSE i \in hits : \A j \in hits : i <= j]
\* Mutant: the last supported lossy candidate instead of the first.
FirstLossyFromEnd(cands, sup) ==
    LET hits == {i \in 1..Len(cands) :
                    sup[i] /\ cands[i] # "png" /\ cands[i] \in LossyFormats}
    IN  IF hits = {} THEN NoFormat
        ELSE cands[CHOOSE i \in hits : \A j \in hits : i >= j]
\* formatSupport.find(f => f.supported && f.format !== 'png' && lossy(f.format))
FirstLossy(cands, sup) ==
    LET hits == {i \in 1..Len(cands) :
                    sup[i] /\ cands[i] # "png" /\ cands[i] \in LossyFormats}
    IN  IF hits = {} THEN NoFormat
        ELSE cands[CHOOSE i \in hits : \A j \in hits : i <= j]

Extension(format) == IF format = "jpeg" THEN "jpg" ELSE format

\* Mutant: the cache is not consulted.
CacheHasNever(format) == FALSE
\* formatSupportCache.has(format), line 14
CacheHas(format) == format \in DOMAIN formatSupportCache

\* Mutant: a cached format counts as supported, has() returned for get().
CacheGetHas(format) == format \in DOMAIN formatSupportCache
\* formatSupportCache.get(format)!, line 15
CacheGet(format) == formatSupportCache[format]

\* Mutant: the map replaced by one that holds the new entry only.
CacheSetFresh(format, isSupported) == [f \in {format} |-> isSupported]
\* Mutant: one flag for all formats instead of a map keyed by format.
CacheSetUnkeyed(format, isSupported) ==
    [f \in DOMAIN formatSupportCache \cup Formats |-> isSupported]
\* formatSupportCache.set(format, isSupported), line 30
CacheSet(format, isSupported) ==
    [f \in DOMAIN formatSupportCache \cup {format} |->
        IF f = format THEN isSupported ELSE formatSupportCache[f]]

---------------------------------------------------------------------------
(* Geometry *)

\* Mutant: the quick downscale applied to every source.
PreDownscaleAlways(w, h) ==
    <<w \div opts.downscaleDivisor, h \div opts.downscaleDivisor>>
\* Lines 107-116: the quick downscale by downscaleDivisor.
PreDownscale(w, h) ==
    IF \/ w > opts.maxWidth * opts.downscaleDivisor
       \/ h > maxHeightAdjusted * opts.downscaleDivisor
    THEN <<w \div opts.downscaleDivisor, h \div opts.downscaleDivisor>>
    ELSE <<w, h>>

\* Mutant: the cap at 1 left out, small sources are scaled up.
CanvasScaleUpscales(ow, oh) ==
    FracMin(<<opts.maxWidth, ow>>, <<maxHeightAdjusted, oh>>)
\* Mutant: the height limit left out of the scale.
CanvasScaleWidthOnly(ow, oh) == FracMin(<<opts.maxWidth, ow>>, <<1, 1>>)
\* Lines 118-120: Math.min(maxWidth / origWidth, maxHeightAdjusted / origHeight, 1)
\* and the rounded canvas size.
CanvasScale(ow, oh) ==
    FracMin(FracMin(<<opts.maxWidth, ow>>, <<maxHeightAdjusted, oh>>), <<1, 1>>)

CanvasSize(ow, oh) ==
    LET s == CanvasScale(ow, oh)
    IN  <<Round(ow * s[1], s[2]), Round(oh * s[1], s[2])>>

\* Lines 179-216: the destination rectangle of drawImage, as fractions.
\* Mutant: 'inside' capped at one half.
DrawScaleInsideHalved(mode, sw, sh, width, height) ==
    CASE mode = "contain" -> FracMin(<<width, sw>>, <<height, sh>>)
      [] mode = "cover"   -> FracMax(<<width, sw>>, <<height, sh>>)
      [] mode = "inside"  -> FracMin(FracMin(<<width, sw>>, <<height, sh>>), <<1, 2>>)
      [] mode = "outside" -> FracMax(FracMax(<<width, sw>>, <<height, sh>>), <<1, 1>>)

DrawScale(mode, sw, sh, width, height) ==
    CASE mode = "contain" -> FracMin(<<width, sw>>, <<height, sh>>)
      [] mode = "cover"   -> FracMax(<<width, sw>>, <<height, sh>>)
      [] mode = "inside"  -> FracMin(FracMin(<<width, sw>>, <<height, sh>>), <<1, 1>>)
      [] mode = "outside" -> FracMax(FracMax(<<width, sw>>, <<height, sh>>), <<1, 1>>)

\* Mutant: the content drawn at the top left corner.
DrawRectUncentered(mode, sw, sh, width, height) ==
    IF mode = "fill"
    THEN [dx |-> <<0, 1>>, dy |-> <<0, 1>>, dw |-> <<width, 1>>, dh |-> <<height, 1>>]
    ELSE LET s == DrawScale(mode, sw, sh, width, height)
         IN  [dw |-> <<sw * s[1], s[2]>>,
              dh |-> <<sh * s[1], s[2]>>,
              dx |-> <<0, 1>>,
              dy |-> <<0, 1>>]

DrawRect(mode, sw, sh, width, height) ==
    IF mode = "fill"
    THEN [dx |-> <<0, 1>>, dy |-> <<0, 1>>, dw |-> <<width, 1>>, dh |-> <<height, 1>>]
    ELSE LET s == DrawScale(mode, sw, sh, width, height)
         IN  [dw |-> <<sw * s[1], s[2]>>,
              dh |-> <<sh * s[1], s[2]>>,
              dx |-> <<width * s[2] - sw * s[1], 2 * s[2]>>,
              dy |-> <<height * s[2] - sh * s[1], 2 * s[2]>>]

\* Lines 171-224 without the context check.
DrawToCanvas(width, height) ==
    [width |-> width, height |-> height,
     rect |-> DrawRect(opts.resizeMode, imageBitmap.width, imageBitmap.height,
                       width, height)]

---------------------------------------------------------------------------
(* The encoder: canvas.toBlob(resolve, format, quality) *)

\* The type of the blob the runtime produces when asked for `format`: a runtime
\* that cannot produce it substitutes its default, image/png.
BlobType(format) == IF format \in runtime.supported THEN format ELSE "png"

\* Byte sizes an unconstrained encoder may produce: at the budget and just above.
FreeSizes == IF maxSizeBytes < 0 THEN {0} ELSE {maxSizeBytes, maxSizeBytes + 1}

FreeBlobs(format, q) ==
    {NoBlob} \cup {[size |-> s, type |-> BlobType(format), quality |-> q] : s \in FreeSizes}

\* The results canvas.toBlob may deliver for a lossy format at quality q.
\* A "free" encoder may answer anything (also null); a "mono" encoder is the
\* synthetic one whose size grows with quality: size = base + q; a "fixed"
\* encoder is a mono encoder whose PNG result has one size too.
ToBlob(format, q) ==
    IF runtime.encoder.kind = "free"
    THEN FreeBlobs(format, q)
    ELSE {[size |-> runtime.encoder.base + q, type |-> BlobType(format), quality |-> q]}

\* The results for PNG, which takes no quality.
ToBlobPng ==
    IF runtime.encoder.kind = "fixed"
    THEN {[size |-> runtime.encoder.png, type |-> BlobType("png"), quality |-> -1]}
    ELSE FreeBlobs("png", -1)

---------------------------------------------------------------------------
(* The quality search of encodeWithBestQuality, lines 145-162 *)

\* Mutant: the search starts 0.1 above minQuality.
SearchLowRaised == opts.minQuality + Q(10)
\* Mutant: the search starts from quality 0 instead of minQuality.
SearchLowFromZero == Q(0)
\* let low = minQuality; let high = quality
SearchLow  == opts.minQuality
SearchHigh == opts.quality

\* const mid = (low + high) / 2
Mid(lo, hi) == (lo + hi) \div 2

\* Mutant: the upper end steps down by 0.15 instead of 0.05.
HighAfterOverWide(mid) == mid - Q(15)
\* Mutant: the lower end steps down after a fit.
LowAfterFitDown(mid) == mid - Q(5)
\* low = mid + 0.05 after a blob within the budget, high = mid - 0.05 otherwise
LowAfterFit(mid)   == mid + Q(5)
HighAfterOver(mid) == mid - Q(5)

---------------------------------------------------------------------------
(* History counters *)

MaxCount == 6       \* the counters of hist saturate here
Inc(x)    == IF x < MaxCount THEN x + 1 ELSE x
Add(x, n) == IF x + n < MaxCount THEN x + n ELSE MaxCount

\* Mutant: the debug channel measures the result by encoding once more.
LogEncodesAgain(h, n) ==
    IF opts.debug THEN [h EXCEPT !.logs = Add(@, n), !.encodes = Inc(@)] ELSE h
\* Line 81: log is console.log when debug is set and does nothing otherwise;
\* n messages are written, h is the history before them.
Log(h, n) == IF opts.debug THEN [h EXCEPT !.logs = Add(@, n)] ELSE h

---------------------------------------------------------------------------
(* Outcomes *)

Pending        == [kind |-> "pending", msg |-> "", format |-> NoFormat,
                   blob |-> NoBlob, name |-> <<>>]
Rejected(e)    == [kind |-> "error", msg |-> e.msg, format |-> e.format,
                   blob |-> NoBlob, name |-> <<>>]
Error(m)       == [msg |-> m, format |-> NoFormat]
\* Mutant: the message without the format.
EncodeErrorUnnamed(f) == [msg |-> ErrEncode, format |-> NoFormat]
\* `Compression failed for ${format}`
EncodeError(f) == [msg |-> ErrEncode, format |-> f]

\* Lines 280-283: outputFilename, or the first dot-separated piece of the
\* File's name plus the extension, or image.<extension>.  Names are sequences
\* of their dot-separated pieces; the empty sequence is "not given".
Filename ==
    IF opts.outputFilename # <<>> THEN opts.outputFilename
    ELSE IF input.isFile THEN <<Head(input.name), Extension(bestFormat)>>
    ELSE <<"image", Extension(bestFormat)>>

\* Mutant: the File tagged with the working format, {type: format}.
ResolvedTaggedByFormat(blob) ==
    [kind |-> "file", msg |-> "", format |-> NoFormat,
     blob |-> [blob EXCEPT !.type = bestFormat], name |-> Filename]
\* Lines 291-293: new File([bestBlob], filename, {type: bestBlob.type})
Resolved(blob) == [kind |-> "file", msg |-> "", format |-> NoFormat,
                   blob |-> blob, name |-> Filename]

---------------------------------------------------------------------------
(* The retry loop, lines 230-277 *)

\* Mutant: the attempt that switches the format is not counted.
CatchSwitchUncounted(e, h) ==
    LET n     == attempts + 1
        lossy == FirstLossy(Candidates(opts.preferredFormat), formatSupport)
    IN  IF bestFormat = "png" /\ n = 1 /\ lossy # NoFormat
        THEN /\ attempts' = attempts
             /\ bestFormat' = lossy
             /\ UNCHANGED <<newWidth, newHeight, bestBlob, outcome>>
             /\ hist' = Log([h EXCEPT !.switches = Inc(@)], 2)
             /\ pc' = "loop"
        ELSE IF n < maxAttempts
        THEN /\ attempts' = n
             /\ newWidth' = Downscale(Downscale(newWidth))
             /\ newHeight' = Downscale(Downscale(newHeight))
             /\ bestBlob' = NoBlob
             /\ UNCHANGED <<bestFormat, outcome>>
             /\ hist' = h
             /\ pc' = "loop"
        ELSE /\ attempts' = n
             /\ outcome' = Rejected(e)
             /\ UNCHANGED <<bestFormat, newWidth, newHeight, bestBlob>>
             /\ hist' = h
             /\ pc' = "rejected"
\* Mutant: the catch block without attempts++.
CatchWithoutCount(e, h) ==
    LET lossy == FirstLossy(Candidates(opts.preferredFormat), formatSupport)
    IN  /\ attempts' = attempts
        /\ IF bestFormat = "png" /\ attempts = 1 /\ lossy # NoFormat
           THEN /\ bestFormat' = lossy
                /\ UNCHANGED <<newWidth, newHeight, bestBlob, outcome>>
                /\ hist' = Log([h EXCEPT !.switches = Inc(@)], 2)
                /\ pc' = "loop"
           ELSE IF attempts < maxAttempts
           THEN /\ newWidth' = Downscale(Downscale(newWidth))
                /\ newHeight' = Downscale(Downscale(newHeight))
                /\ bestBlob' = NoBlob
                /\ UNCHANGED <<bestFormat, outcome>>
                /\ hist' = h
                /\ pc' = "loop"
           ELSE /\ outcome' = Rejected(e)
                /\ UNCHANGED <<bestFormat, newWidth, newHeight, bestBlob>>
                /\ hist' = h
                /\ pc' = "rejected"

\* The catch block (lines 234-267) followed by the re-check of lines 269-276,
\* for an error e thrown by drawToCanvas or encodeWithBestQuality; h is the
\* history including the step that threw.
Catch(e, h) ==
    LET n     == attempts + 1
        lossy == FirstLossy(Candidates(opts.preferredFormat), formatSupport)
    IN  /\ attempts' = n
        /\ IF bestFormat = "png" /\ n = 1 /\ lossy # NoFormat
           THEN \* switch format and `continue`: lines 269-276 are skipped
                /\ bestFormat' = lossy
                /\ UNCHANGED <<newWidth, newHeight, bestBlob, outcome>>
                /\ hist' = Log([h EXCEPT !.switches = Inc(@)], 2)
                /\ pc' = "loop"
           ELSE IF n < maxAttempts
           THEN \* downscale at 261-262, and once more at 273-274 as bestBlob is null
                /\ newWidth' = Downscale(Downscale(newWidth))
                /\ newHeight' = Downscale(Downscale(newHeight))
                /\ bestBlob' = NoBlob
                /\ UNCHANGED <<bestFormat, outcome>>
                /\ hist' = h
                /\ pc' = "loop"
           ELSE \* throw error
                /\ outcome' = Rejected(e)
                /\ UNCHANGED <<bestFormat, newWidth, newHeight, bestBlob>>
                /\ hist' = h
                /\ pc' = "rejected"

\* encodeWithBestQuality returned blob (line 233), then lines 269-276.
Return(blob, h) ==
    /\ IF blob.size > maxSizeBytes
       THEN /\ newWidth' = Downscale(newWidth)
            /\ newHeight' = Downscale(newHeight)
            /\ bestBlob' = NoBlob
       ELSE /\ bestBlob' = blob
            /\ UNCHANGED <<newWidth, newHeight>>
    /\ UNCHANGED <<attempts, bestFormat, outcome>>
    /\ hist' = h
    /\ pc' = "loop"

---------------------------------------------------------------------------
(* Initial states *)

\* probes .. switches count events (saturating at MaxCount); firstFormat is the
\* format negotiated before the first attempt; pngCanvas is the canvas size of
\* the PNG attempt that threw 'PNG image too large' first; pngNull counts the
\* PNG encodes that delivered no blob; bestFit is the highest quality whose
\* encoding was within the budget in the current quality search (-1: none);
\* qmin and qmax are the
\* lowest and the highest quality passed to canvas.toBlob so far (-1: none);
\* logs counts the messages written to the debug channel; calls is 2 in a call
\* that compresses the File an earlier call returned, whose size is given, with
\* a budget loosened by so many MB.
NewHist == [probes |-> 0, decodes |-> 0, draws |-> 0, searches |-> 0,
            encodes |-> 0, fit |-> 0, over |-> 0, null |-> 0,
            switches |-> 0, pngLarge |-> 0, firstFormat |-> NoFormat,
            pngCanvas |-> <<-1, -1>>, pngNull |-> 0, bestFit |-> -1,
            qmin |-> -1, qmax |-> -1, logs |-> 0,
            calls |-> 1, given |-> -1, loosened |-> 0]

EmptyCache == [f \in {} |-> TRUE]

\* null and undefined of the Node variant; a number n is <<n>>.
NodeNull == <<>>

NodePending == [kind |-> "pending", name |-> "", msg |-> "", length |-> -1]

\* qualities: the quality of every toBuffer so far, in order; failed, fit and
\* over count the encodes that threw, met the budget and exceeded it.
NewNodeHist == [qualities |-> <<>>, failed |-> 0, fit |-> 0, over |-> 0]

\* No call of nodeCompress.
NodeIdle ==
    /\ nodeOptions = [maxSizeMB |-> 1, maxWidth |-> 8, maxHeight |-> NodeNull,
                      quality |-> 80, preferredFormat |-> "webp"]
    /\ fileBuffer = [valid |-> TRUE]
    /\ sharpRuntime = [formats |-> {}, encoder |-> [kind |-> "free", base |-> 0]]
    /\ nodePc = "idle"
    /\ currentQuality = 0
    /\ compressedBuffer = NodeNull
    /\ nodeOutcome = NodePending
    /\ nodeHist = NewNodeHist

InitWith(Options, Inputs, Runtimes) ==
    /\ opts \in Options
    /\ input \in Inputs
    /\ runtime \in Runtimes
    /\ formatSupportCache = EmptyCache
    /\ others = {}
    /\ pc = "start"
    /\ probes = [i \in 1..5 |-> "idle"]
    /\ formatSupport = [i \in 1..5 |-> FALSE]
    /\ bestFormat = NoFormat
    /\ imageBitmap = [width |-> 0, height |-> 0]
    /\ origWidth = 0 /\ origHeight = 0
    /\ newWidth = 0 /\ newHeight = 0
    /\ attempts = 0
    /\ bestBlob = NoBlob
    /\ low = 0 /\ high = 0
    /\ searchBlob = NoBlob
    /\ canvas = NoCanvas
    /\ outcome = Pending
    /\ hist = NewHist
    /\ NodeIdle

\* Looser budgets of a second call: up to this many MB more.
MaxLoosen == 1

\* compress(await compress(file, options), {...options, maxSizeMB}): the caller
\* hands the File a call returned to a new call, with the same or a looser
\* budget and the same other options.  The File is an image of the size of the
\* canvas it was encoded from.  The format-support cache is the module's and
\* stays.
Recompress ==
    /\ pc = "resolved"
    /\ hist.calls = 1
    /\ \E more \in 0..MaxLoosen :
          /\ opts' = [opts EXCEPT !.maxSizeMB = @ + more]
          /\ hist' = [NewHist EXCEPT !.calls = 2, !.given = outcome.blob.size,
                                     !.loosened = more]
    /\ input' = [width |-> canvas.width, height |-> canvas.height,
                 decodable |-> TRUE, isFile |-> TRUE, name |-> outcome.name]
    /\ pc' = "start"
    /\ probes' = [i \in 1..5 |-> "idle"]
    /\ formatSupport' = [i \in 1..5 |-> FALSE]
    /\ bestFormat' = NoFormat
    /\ imageBitmap' = [width |-> 0, height |-> 0]
    /\ origWidth' = 0 /\ origHeight' = 0
    /\ newWidth' = 0 /\ newHeight' = 0
    /\ attempts' = 0
    /\ bestBlob' = NoBlob
    /\ low' = 0 /\ high' = 0
    /\ searchBlob' = NoBlob
    /\ canvas' = NoCanvas
    /\ outcome' = Pending
    /\ UNCHANGED <<runtime, formatSupportCache, others, nodeVars>>

---------------------------------------------------------------------------
(* Actions *)

\* compressImage up to `await Promise.all(...)`: the five isFormatSupported
\* calls run to their first suspension (lines 14-36).
StartCall ==
    /\ pc = "start"
    /\ LET cands == Candidates(opts.preferredFormat)
           miss  == {i \in 1..5 : ~CacheHas(cands[i])}
       IN  IF miss # {} /\ ~runtime.hasContext2d
           THEN \* line 21 throws; Promise.all rejects
                /\ probes' = [i \in 1..5 |-> IF i \in miss THEN "threw" ELSE "hit"]
                /\ UNCHANGED formatSupport
                /\ outcome' = Rejected(Error(ErrContext))
                /\ hist' = Log(hist, 1)
                /\ pc' = "rejected"
           ELSE /\ probes' = [i \in 1..5 |-> IF i \in miss THEN "pending" ELSE "hit"]
                /\ formatSupport' = [i \in 1..5 |->
                       IF i \in miss THEN FALSE ELSE CacheGet(cands[i])]
                /\ hist' = Log([hist EXCEPT !.probes = Add(@, Cardinality(miss))], 1)
                /\ UNCHANGED outcome
                /\ pc' = "probing"
    /\ UNCHANGED <<cfgVars, nodeVars, others, formatSupportCache, bestFormat, geomVars, attempts,
                   bestBlob, searchVars, canvas>>

\* The toBlob callback of probe i (lines 28-32).
ProbeDone(i) ==
    /\ probes[i] = "pending"
    /\ LET format      == Candidates(opts.preferredFormat)[i]
           isSupported == ProbeAnswer(format)
       IN  /\ formatSupportCache' = CacheSet(format, isSupported)
           /\ formatSupport' = [formatSupport EXCEPT ![i] = isSupported]
    /\ probes' = [probes EXCEPT ![i] = "done"]
    /\ UNCHANGED <<cfgVars, nodeVars, others, pc, bestFormat, geomVars, attempts, bestBlob,
                   searchVars, canvas, outcome, hist>>

\* Promise.all resolved: lines 100-103, up to `await createImageBitmap`.
Negotiate ==
    /\ pc = "probing"
    /\ \A i \in 1..5 : probes[i] \in {"hit", "done"}
    /\ bestFormat' = FirstSupported(Candidates(opts.preferredFormat), formatSupport)
    /\ hist' = Log([hist EXCEPT !.firstFormat = bestFormat'], 1)
    /\ pc' = "decode"
    /\ UNCHANGED <<cfgVars, nodeVars, others, probeVars, geomVars, attempts, bestBlob, searchVars,
                   canvas, outcome>>

\* createImageBitmap settled: lines 103-126 and 226-228.
Decode ==
    /\ pc = "decode"
    /\ hist' = IF input.decodable THEN Log([hist EXCEPT !.decodes = Inc(@)], 1)
               ELSE [hist EXCEPT !.decodes = Inc(@)]
    /\ IF ~input.decodable
       THEN /\ outcome' = Rejected(Error(ErrDecode))
            /\ pc' = "rejected"
            /\ UNCHANGED geomVars
       ELSE LET pre  == PreDownscale(input.width, input.height)
                size == CanvasSize(pre[1], pre[2])
            IN  /\ imageBitmap' = [width |-> input.width, height |-> input.height]
                /\ origWidth' = pre[1]
                /\ origHeight' = pre[2]
                /\ newWidth' = size[1]
                /\ newHeight' = size[2]
                /\ UNCHANGED outcome
                /\ pc' = "loop"
    /\ UNCHANGED <<cfgVars, nodeVars, others, probeVars, bestFormat, attempts, bestBlob, searchVars,
                   canvas>>

\* The loop head (line 230).  While the loop runs: drawToCanvas and the start of
\* encodeWithBestQuality, up to its first toBlob.  Otherwise lines 279-304.
LoopStep ==
    /\ pc = "loop"
    /\ IF bestBlob = NoBlob /\ attempts < maxAttempts
       THEN IF ~runtime.hasContext2d
            THEN /\ Catch(Error(ErrContext), hist)
                 /\ UNCHANGED <<canvas, searchVars>>
            ELSE /\ canvas' = DrawToCanvas(newWidth, newHeight)
                 /\ IF bestFormat = "png"
                    THEN /\ pc' = "png"
                         /\ hist' = [hist EXCEPT !.draws = Inc(@)]
                         /\ UNCHANGED searchVars
                    ELSE /\ pc' = "search"
                         /\ hist' = [hist EXCEPT !.draws = Inc(@), !.searches = Inc(@),
                                                  !.bestFit = -1]
                         /\ low' = SearchLow
                         /\ high' = SearchHigh
                         /\ searchBlob' = NoBlob
                 /\ UNCHANGED <<attempts, bestFormat, newWidth, newHeight, bestBlob,
                                outcome>>
       ELSE /\ IF bestBlob = NoBlob
               THEN /\ outcome' = Rejected(Error(ErrNoOutput))
                    /\ hist' = hist
                    /\ pc' = "rejected"
               ELSE /\ outcome' = Resolved(bestBlob)
                    /\ hist' = Log(hist, 1)
                    /\ pc' = "resolved"
            /\ UNCHANGED <<attempts, bestFormat, newWidth, newHeight, bestBlob,
                           canvas, searchVars>>
    /\ UNCHANGED <<cfgVars, nodeVars, others, probeVars, imageBitmap, origWidth, origHeight>>

\* The history after an encode that delivered blob.
Encoded(blob) ==
    [hist EXCEPT !.encodes = Inc(@),
                 !.null = IF blob = NoBlob THEN Inc(@) ELSE @,
                 !.fit  = IF blob # NoBlob /\ blob.size <= maxSizeBytes THEN Inc(@) ELSE @,
                 !.over = IF blob # NoBlob /\ blob.size > maxSizeBytes THEN Inc(@) ELSE @]

\* The history after canvas.toBlob(resolve, format, q) delivered blob.
EncodedAt(blob, q) ==
    [Encoded(blob) EXCEPT !.qmin = IF @ = -1 \/ q < @ THEN q ELSE @,
                          !.qmax = IF @ = -1 \/ q > @ THEN q ELSE @,
                          !.bestFit = IF blob # NoBlob /\ blob.size <= maxSizeBytes /\ q > @
                                      THEN q ELSE @]

\* The history after a PNG encode that was too large.
PngTooLarge(blob) ==
    LET h == Encoded(blob)
    IN  [h EXCEPT !.pngLarge = Inc(@),
                  !.pngCanvas = IF h.pngLarge = 0 THEN <<canvas.width, canvas.height>>
                                ELSE @]

\* The history after a PNG encode that delivered no blob.
PngFailed(blob) == [Encoded(blob) EXCEPT !.pngNull = Inc(@)]

\* The toBlob callback of the PNG branch (lines 130-142).
EncodePng ==
    /\ pc = "png"
    /\ \E blob \in ToBlobPng :
          IF blob = NoBlob THEN Catch(EncodeError(bestFormat), PngFailed(blob))
          ELSE IF blob.size > maxSizeBytes THEN Catch(Error(ErrPngLarge), PngTooLarge(blob))
          ELSE Return(blob, Encoded(blob))
    /\ UNCHANGED <<cfgVars, nodeVars, others, probeVars, imageBitmap, origWidth, origHeight,
                   searchVars, canvas>>

\* One turn of the binary search (lines 149-162), or its end (164-165).
SearchStep ==
    /\ pc = "search"
    /\ IF low <= high
       THEN LET mid == Mid(low, high)
            IN  \E blob \in ToBlob(bestFormat, mid) :
                   IF blob = NoBlob
                   THEN /\ Catch(EncodeError(bestFormat), EncodedAt(blob, mid))
                        /\ UNCHANGED searchVars
                   ELSE /\ IF blob.size <= maxSizeBytes
                           THEN /\ searchBlob' = blob
                                /\ low' = LowAfterFit(mid)
                                /\ UNCHANGED high
                           ELSE /\ high' = HighAfterOver(mid)
                                /\ UNCHANGED <<low, searchBlob>>
                        /\ hist' = EncodedAt(blob, mid)
                        /\ UNCHANGED <<pc, attempts, bestFormat, newWidth, newHeight,
                                       bestBlob, outcome>>
       ELSE /\ IF searchBlob = NoBlob
               THEN Catch(Error(ErrSize), hist)
               ELSE Return(searchBlob, hist)
            /\ UNCHANGED searchVars
    /\ UNCHANGED <<cfgVars, nodeVars, others, probeVars, imageBitmap, origWidth, origHeight, canvas>>

\* Another call of compressImage reaches its Promise.all (lines 89-98): each
\* candidate that is not cached gets a probe (lines 14-36).  Its candidate list
\* [preferred, webp, avif, png, jpeg] covers every format.  Without a 2d
\* context its probes throw at line 21 and none is started.
OtherStart ==
    /\ runtime.hasContext2d
    /\ Formats \ DOMAIN formatSupportCache # {}
    /\ others' = others \cup (Formats \ DOMAIN formatSupportCache)
    /\ UNCHANGED <<cfgVars, nodeVars, formatSupportCache, pc, probes, formatSupport,
                   bestFormat, geomVars, attempts, bestBlob, searchVars, canvas,
                   outcome, hist>>

\* The toBlob callback of a probe of another call (lines 28-32).
OtherProbeDone(format) ==
    /\ format \in others
    /\ formatSupportCache' = CacheSet(format, ProbeAnswer(format))
    /\ others' = others \ {format}
    /\ UNCHANGED <<cfgVars, nodeVars, pc, probes, formatSupport, bestFormat, geomVars,
                   attempts, bestBlob, searchVars, canvas, outcome, hist>>

Next ==
    \/ StartCall
    \/ \E i \in 1..5 : ProbeDone(i)
    \/ Negotiate
    \/ Decode
    \/ LoopStep
    \/ EncodePng
    \/ SearchStep

\* A call, and a second call on the File it returned.
NextAgain ==
    \/ Next
    \/ Recompress

\* This call together with any number of other calls.
NextConcurrent ==
    \/ Next
    \/ OtherStart
    \/ \E format \in Formats : OtherProbeDone(format)

---------------------------------------------------------------------------
(* nodeCompress, src/src/utils/nodeCompress.ts *)

NodeErrSize     == "Failed to compress image within size constraints"
NodeErrWrapped  == "Image compression failed"

\* Mutant: a plain Error thrown.
PlainError(m) == [kind |-> "error", name |-> "Error", msg |-> m, length |-> -1]
\* new CompressionError(message), lines 7-12
CompressionError(m) == [kind |-> "error", name |-> "CompressionError", msg |-> m,
                        length |-> -1]
NodeResolved(len)   == [kind |-> "buffer", name |-> "", msg |-> "", length |-> len]

\* validateOptions, lines 17-37: the message of the error it throws, "" if none.
validateOptions(o) ==
    IF o.maxSizeMB <= 0 THEN "maxSizeMB must be greater than 0"
    ELSE IF o.maxWidth <= 0 THEN "maxWidth must be greater than 0"
    ELSE IF o.maxHeight # NodeNull /\ o.maxHeight[1] <= 0
         THEN "maxHeight must be greater than 0"
    ELSE IF o.quality < 1 \/ o.quality > 100 THEN "quality must be between 1 and 100"
    ELSE ""

\* Mutant: kilobytes and kibibytes mixed up.
nodeMaxSizeBytesMixedUnits == nodeOptions.maxSizeMB * 1024 * 1025
\* const maxSizeBytes = maxSizeMB * 1024 * 1024, line 116
nodeMaxSizeBytes == nodeOptions.maxSizeMB * 1024 * 1024

\* let currentQuality = 80, line 117
StartQuality == 80

SharpError     == [ok |-> FALSE, length |-> -1]
SharpBuffer(n) == [ok |-> TRUE, length |-> n]

\* What pipeline.toFormat(format, {quality, ...}).toBuffer() may deliver: an
\* error (it throws or rejects) or a buffer.  A format sharp cannot write
\* always fails.  A "free" encoder may fail or give a buffer at the budget or
\* just above; a "mono" encoder gives base + quality bytes.
SharpToBuffer(format, quality) ==
    IF format \notin sharpRuntime.formats THEN {SharpError}
    ELSE IF sharpRuntime.encoder.kind = "free"
    THEN {SharpError, SharpBuffer(nodeMaxSizeBytes), SharpBuffer(nodeMaxSizeBytes + 1)}
    ELSE {SharpBuffer(sharpRuntime.encoder.base + quality)}

\* nodeCompress up to `await pipeline.metadata()`: lines 93-126.
NodeStart ==
    /\ nodePc = "start"
    /\ LET invalid == validateOptions(nodeOptions)
       IN  IF invalid # ""
           THEN /\ nodeOutcome' = CompressionError(invalid)
                /\ nodePc' = "rejected"
                /\ UNCHANGED currentQuality
           ELSE /\ currentQuality' = StartQuality
                /\ nodePc' = "metadata"
                /\ UNCHANGED nodeOutcome
    /\ UNCHANGED <<browserVars, nodeOptions, fileBuffer, sharpRuntime,
                   compressedBuffer, nodeHist>>

\* metadata() settled: lines 126-178, up to the first toBuffer; a rejection is
\* wrapped at line 206.
NodeMetadata ==
    /\ nodePc = "metadata"
    /\ IF ~fileBuffer.valid
       THEN /\ nodeOutcome' = CompressionError(NodeErrWrapped)
            /\ nodePc' = "rejected"
       ELSE /\ nodePc' = IF currentQuality >= 10 THEN "encode" ELSE "rejected"
            /\ nodeOutcome' = IF currentQuality >= 10 THEN nodeOutcome
                              ELSE CompressionError(NodeErrSize)
    /\ UNCHANGED <<browserVars, nodeOptions, fileBuffer, sharpRuntime,
                   currentQuality, compressedBuffer, nodeHist>>

\* toBuffer settled: lines 178-201, one turn of the loop and its continuation
\* up to the next toBuffer, the return or the throw.
NodeEncode ==
    /\ nodePc = "encode"
    /\ \E result \in SharpToBuffer(nodeOptions.preferredFormat, currentQuality) :
          LET failed == ~result.ok
              fits   == result.ok /\ result.length <= nodeMaxSizeBytes
              h      == [nodeHist EXCEPT
                            !.qualities = Append(@, currentQuality),
                            !.failed = IF failed THEN @ + 1 ELSE @,
                            !.fit    = IF fits THEN @ + 1 ELSE @,
                            !.over   = IF ~failed /\ ~fits THEN @ + 1 ELSE @]
          IN  /\ nodeHist' = h
              /\ compressedBuffer' = IF failed THEN compressedBuffer ELSE <<result.length>>
              /\ IF fits
                 THEN /\ nodeOutcome' = NodeResolved(result.length)
                      /\ nodePc' = "resolved"
                      /\ UNCHANGED currentQuality
                 ELSE /\ currentQuality' = currentQuality - 10
                      /\ IF currentQuality - 10 >= 10
                         THEN /\ nodePc' = "encode"
                              /\ UNCHANGED nodeOutcome
                         ELSE /\ nodeOutcome' = CompressionError(NodeErrSize)
                              /\ nodePc' = "rejected"
    /\ UNCHANGED <<browserVars, nodeOptions, fileBuffer, sharpRuntime>>

NextNode ==
    \/ NodeStart
    \/ NodeMetadata
    \/ NodeEncode

---------------------------------------------------------------------------
(* Specifications *)

\* Bounds of the model.
MaxSide == 20       \* largest source width and height, in pixels

OptionRecords(sizes, qualities, widths, heights, divisors, formats, modes) ==
    {[maxSizeMB |-> mb, quality |-> qq[1], minQuality |-> qq[2],
      maxWidth |-> mw, maxHeight |-> mh, downscaleDivisor |-> dd,
      preferredFormat |-> pf, resizeMode |-> rm, outputFilename |-> <<>>,
      debug |-> FALSE] :
        mb \in sizes, qq \in qualities, mw \in widths, mh \in heights,
        dd \in divisors, pf \in formats, rm \in modes}

\* The same options with debug logging off and on.
WithDebug(options) == {[o EXCEPT !.debug = d] : o \in options, d \in BOOLEAN}

InputRecords(widths, heights, decodable) ==
    {[width |-> w, height |-> h, decodable |-> d, isFile |-> TRUE,
      name |-> <<"photo", "jpg">>] :
        w \in widths, h \in heights, d \in decodable}

FreeEncoder    == [kind |-> "free", base |-> 0]
\* The synthetic encoder that fits a budget of 1 MB exactly up to quality thr.
MonoEncoder(thr) == [kind |-> "mono", base |-> 1024 * 1024 - thr]

\* The synthetic encoder with a PNG result of size png.
FixedEncoder(thr, png) == [kind |-> "fixed", base |-> 1024 * 1024 - thr, png |-> png]

RuntimeRecords(sets, contexts, encoders) ==
    {[supported |-> s, hasContext2d |-> c, encoder |-> e] :
        s \in sets, c \in contexts, e \in encoders}

\* Spec: every preferred format and every set of supported formats, valid and
\* invalid budgets and quality ranges, free and synthetic encoders, one geometry.
SpecOptions ==
    OptionRecords({-1, 1}, {<<Q(90), Q(10)>>, <<Q(30), Q(50)>>, <<Q(150), Q(10)>>},
                  {8}, {0}, {2}, Formats, {"contain"})
SpecInputs == InputRecords({MaxSide}, {MaxSide - 5}, BOOLEAN)
SpecRuntimes ==
    RuntimeRecords(SUBSET Formats, BOOLEAN,
                   {FreeEncoder, MonoEncoder(Q(10)), MonoEncoder(Q(60))})

Init == InitWith(SpecOptions, SpecInputs, SpecRuntimes)
Spec == Init /\ [][Next]_vars

\* FairSpec: every pending callback (probe, decode, toBlob) is eventually
\* delivered and the continuation of the call then runs.  PNG and lossy
\* preferred, with and without lossy fallback, no format at all, an
\* unconstrained encoder (results within budget, over it, or null).
FairOptions ==
    OptionRecords({1}, {<<Q(90), Q(10)>>, <<Q(30), Q(50)>>}, {8}, {0}, {2},
                  {"png", "webp"}, {"contain"})
FairRuntimes ==
    RuntimeRecords({{}, {"png"}, {"webp"}, {"png", "webp"}, {"png", "jpeg"}, Formats},
                   BOOLEAN, {FreeEncoder})

InitFair == InitWith(FairOptions, SpecInputs, FairRuntimes)
FairSpec == InitFair /\ [][Next]_vars /\ WF_vars(Next)

\* SpecGeom: every source size up to GeomSide x GeomSide, every resize mode, with
\* and without maxHeight; the working format is png without fallback, png with
\* jpeg as fallback, or jpeg from the start, so that PNG attempts, the fallback
\* and the lossy retries with their downscales all occur.
GeomSide == 12      \* largest source width and height of SpecGeom, in pixels

GeomOptions ==
    OptionRecords({1}, {<<Q(30), Q(10)>>}, {4}, {0, 3}, {2}, {"png", "jpeg"},
                  ResizeModes)
GeomInputs == InputRecords(1..GeomSide, 1..GeomSide, {TRUE})
GeomRuntimes == RuntimeRecords({{"png"}, {"png", "jpeg"}}, {TRUE}, {FreeEncoder})

InitGeom == InitWith(GeomOptions, GeomInputs, GeomRuntimes)
SpecGeom == InitGeom /\ [][Next]_vars

\* SpecSearch: the synthetic encoder size = base + q for every threshold on
\* the grid of the search (its midpoints are multiples of 4 units: thresholds
\* at a multiple and just below one separate all of them), three quality
\* ranges, webp negotiated directly or reached through the PNG fallback.
SearchThresholds == {t \in -1..Q(100) : t % 4 \in {0, 3}}
SearchOptions ==
    OptionRecords({1}, {<<Q(90), Q(10)>>, <<Q(100), Q(0)>>, <<Q(80), Q(55)>>},
                  {8}, {0}, {2}, {"webp"}, {"contain"})
    \cup OptionRecords({1}, {<<Q(90), Q(10)>>}, {8}, {0}, {2}, {"png"}, {"contain"})
SearchInputs == InputRecords({MaxSide}, {MaxSide - 5}, {TRUE})
SearchRuntimes ==
    RuntimeRecords({{"png", "webp"}}, {TRUE},
                   {MonoEncoder(t) : t \in SearchThresholds})

InitSearch == InitWith(SearchOptions, SearchInputs, SearchRuntimes)
SpecSearch == InitSearch /\ [][Next]_vars

\* SpecConcurrent: the call interleaved, at every suspension point, with the
\* probes of other calls; every preferred format and every set of supported
\* formats, PNG results of any kind, a synthetic lossy encoder.
ConcurrentOptions ==
    OptionRecords({1}, {<<Q(90), Q(10)>>}, {8}, {0}, {2}, Formats, {"contain"})
ConcurrentRuntimes ==
    RuntimeRecords(SUBSET Formats, BOOLEAN, {MonoEncoder(Q(60))})

InitConcurrent == InitWith(ConcurrentOptions, SearchInputs, ConcurrentRuntimes)
SpecConcurrent == InitConcurrent /\ [][NextConcurrent]_vars

\* SpecDebug: pairs of calls that differ in the debug option only, in a runtime
\* whose lossy encoder is the synthetic one; the budget is met at once
\* (threshold 0.6) or never (threshold 0.05), the input decodes or not, webp
\* is negotiated directly or reached through the PNG fallback.
DebugOptions ==
    WithDebug(OptionRecords({1}, {<<Q(90), Q(10)>>}, {8}, {0}, {2},
                            {"webp", "png"}, {"contain"}))
DebugRuntimes ==
    RuntimeRecords({{"png", "webp"}}, {TRUE}, {MonoEncoder(Q(60)), MonoEncoder(Q(5))})

\* A 20 x 15 source: quick-downscaled to 10 x 7, first canvas 8 x 6.
DebugInputs == InputRecords({20}, {15}, BOOLEAN)

InitDebug == InitWith(DebugOptions, DebugInputs, DebugRuntimes)
SpecDebug == InitDebug /\ [][Next]_vars

\* SpecAgain: a call and the re-compression of its File, with the same budget
\* (1 MB) or a looser one, in a runtime whose encoder gives one size per format
\* and quality: lossy results fit 1 MB up to quality 0.6 or 0.3, the PNG result
\* is 1 MB or one byte more; lossy and PNG preferred, PNG with and without a
\* lossy fallback.
AgainOptions ==
    OptionRecords({1}, {<<Q(90), Q(10)>>}, {8}, {0}, {2}, {"webp", "png"}, {"contain"})
AgainInputs == InputRecords({20}, {9, 15}, {TRUE})
AgainRuntimes ==
    RuntimeRecords({{"png"}, {"png", "webp"}}, {TRUE},
                   {FixedEncoder(thr, png) : thr \in {Q(60), Q(30)},
                                             png \in {1024 * 1024, 1024 * 1024 + 1}})

InitAgain == InitWith(AgainOptions, AgainInputs, AgainRuntimes)
SpecAgain == InitAgain /\ [][NextAgain]_vars

\* The same options without and with an outputFilename.
WithOutputFilename(options, names) ==
    {[o EXCEPT !.outputFilename = n] : o \in options, n \in names}

\* The same inputs as Files of the given names and as a Blob, which has no name.
WithNames(inputs, names) ==
    {[i EXCEPT !.name = n] : i \in inputs, n \in names}
    \cup {[i EXCEPT !.isFile = FALSE, !.name = <<>>] : i \in inputs}

\* SpecName: Files named photo.jpg, my.photo.png and photo (no extension) and a
\* Blob, without and with an outputFilename; png kept, png with jpeg as
\* fallback, jpeg and webp negotiated.
NameOptions ==
    WithOutputFilename(
        OptionRecords({1}, {<<Q(30), Q(10)>>}, {8}, {0}, {2}, {"png", "jpeg", "webp"},
                      {"contain"}),
        {<<>>, <<"out", "webp">>})
NameInputs ==
    WithNames(SearchInputs, {<<"photo", "jpg">>, <<"my", "photo", "png">>, <<"photo">>})
NameRuntimes ==
    RuntimeRecords({{"png"}, {"png", "jpeg"}, {"jpeg"}, {"webp", "jpeg"}}, {TRUE},
                   {FreeEncoder})

InitName == InitWith(NameOptions, NameInputs, NameRuntimes)
SpecName == InitName /\ [][Next]_vars

\* SpecNode: calls of nodeCompress with valid and invalid options, every
\* format and one sharp cannot write, valid and undecodable buffers, an
\* unconstrained encoder and synthetic ones that meet the budget of 1 MB up to
\* quality 100, 45 and 5.
NodeOptionRecords ==
    {[maxSizeMB |-> mb, maxWidth |-> mw, maxHeight |-> mh, quality |-> q,
      preferredFormat |-> pf] :
        mb \in {0, 1}, mw \in {0, 8}, mh \in {NodeNull, <<0>>, <<6>>},
        q \in {0, 1, 50, 80, 100, 101}, pf \in Formats \cup {"unsupported"}}
NodeRuntimes ==
    {[formats |-> Formats, encoder |-> e] :
        e \in {[kind |-> "free", base |-> 0]}
              \cup {[kind |-> "mono", base |-> 1024 * 1024 - t] : t \in {100, 45, 5}}}

\* No call of compressImage.
BrowserIdle ==
    /\ opts \in OptionRecords({1}, {<<Q(90), Q(10)>>}, {8}, {0}, {2}, {"webp"},
                              {"contain"})
    /\ input \in InputRecords({MaxSide}, {MaxSide - 5}, {TRUE})
    /\ runtime \in RuntimeRecords({Formats}, {TRUE}, {FreeEncoder})
    /\ formatSupportCache = EmptyCache
    /\ others = {}
    /\ pc = "idle"
    /\ probes = [i \in 1..5 |-> "idle"]
    /\ formatSupport = [i \in 1..5 |-> FALSE]
    /\ bestFormat = NoFormat
    /\ imageBitmap = [width |-> 0, height |-> 0]
    /\ origWidth = 0 /\ origHeight = 0
    /\ newWidth = 0 /\ newHeight = 0
    /\ attempts = 0
    /\ bestBlob = NoBlob
    /\ low = 0 /\ high = 0
    /\ searchBlob = NoBlob
    /\ canvas = NoCanvas
    /\ outcome = Pending
    /\ hist = NewHist

InitNode ==
    /\ BrowserIdle
    /\ nodeOptions \in NodeOptionRecords
    /\ fileBuffer \in {[valid |-> v] : v \in BOOLEAN}
    /\ sharpRuntime \in NodeRuntimes
    /\ nodePc = "start"
    /\ currentQuality = 0
    /\ compressedBuffer = NodeNull
    /\ nodeOutcome = NodePending
    /\ nodeHist = NewNodeHist
SpecNode == InitNode /\ [][NextNode]_vars

\* SpecRetry: the retry loop under an unconstrained encoder (results within
\* the budget, over it, or null at every encode), a 2d context present: png
\* and webp preferred, valid and inverted quality ranges, png without lossy
\* fallback, png with one and with several, webp alone.
RetryRuntimes ==
    RuntimeRecords({{"png"}, {"png", "webp"}, {"webp"}, {"png", "jpeg", "avif"}},
                   {TRUE}, {FreeEncoder})

InitRetry == InitWith(FairOptions, SearchInputs, RetryRuntimes)
SpecRetry == InitRetry /\ [][Next]_vars

---------------------------------------------------------------------------
(* Sanity of the model *)

Terminal == pc \in {"resolved", "rejected"}

\* The midpoints of the binary search are exact in the chosen quality unit, and
\* the counters the claims read as numbers do not saturate (encodes, fit, over
\* and null may: they are read as "none", "some" and "at least 3").
ModelExact ==
    /\ (pc = "search" /\ low <= high) => (low + high) % 2 = 0
    /\ \A c \in {"probes", "decodes", "draws", "searches", "switches", "pngLarge",
                "pngNull"} :
          hist[c] < MaxCount

---------------------------------------------------------------------------
(* Claims *)

\* The blob sizes of the claims are stated against the option itself.
Budget == opts.maxSizeMB * 1024 * 1024

\* C1: budget invariant.  Every call that resolves returns a File holding a
\* blob of at most maxSizeMB * 1024 * 1024 bytes, whatever the encoder does,
\* whatever the working format (lossy, PNG, PNG then lossy fallback).
C1_BudgetInvariant ==
    pc = "resolved" =>
        /\ outcome.kind = "file"
        /\ outcome.blob # NoBlob
        /\ outcome.blob.size <= Budget

\* A call that resolved after the PNG fallback with a blob exactly at the budget.
C1_Witness ==
    /\ pc = "resolved"
    /\ hist.switches = 1
    /\ outcome.blob.size = Budget

\* C2: a call with maxSizeMB <= 0 is rejected at once with 'maxSizeMB must be
\* greater than 0': it decodes nothing, draws nothing and encodes nothing.
C2_InvalidSizeRejectedAtOnce ==
    (opts.maxSizeMB <= 0 /\ runtime.hasContext2d) =>
        /\ hist.decodes = 0 /\ hist.draws = 0 /\ hist.encodes = 0
        /\ pc # "resolved"
        /\ pc = "rejected" => outcome.msg = "maxSizeMB must be greater than 0"

\* C3: a call whose quality range is invalid (minQuality > quality, or quality
\* outside [0, 1]) fails before any decode, draw or encode.
InvalidQuality ==
    \/ opts.minQuality > opts.quality
    \/ opts.quality < Q(0) \/ opts.quality > Q(100)

C3_InvalidQualityFailsFast ==
    (InvalidQuality /\ runtime.hasContext2d) =>
        /\ hist.decodes = 0 /\ hist.draws = 0 /\ hist.encodes = 0
        /\ pc # "resolved"

\* C4: unreachable budget.  With a lossy working format and an encoder whose
\* every result is over the budget, the call rejects after exactly 3 attempts,
\* each one draw followed by one quality search, and never starts a 4th.
AlwaysOversized == hist.fit = 0 /\ hist.null = 0

C4_ThreeAttemptsThenReject ==
    (hist.firstFormat \in LossyFormats /\ AlwaysOversized) =>
        /\ hist.draws <= 3
        /\ hist.searches = hist.draws
        /\ (Terminal /\ input.decodable) =>
              /\ pc = "rejected"
              /\ hist.draws = 3 /\ hist.searches = 3

\* A call rejected after three searches that saw oversized results only.
C4_Witness ==
    /\ pc = "rejected"
    /\ hist.firstFormat \in LossyFormats
    /\ AlwaysOversized /\ hist.over >= 3
    /\ hist.draws = 3

\* C5 as claimed: whenever every encode result is over the budget, the call
\* rejects with a message containing 'Failed to compress image', whatever the
\* working format.
SaysFailedToCompress(msg) ==
    msg \in {"Failed to compress image within size constraints",
             "Failed to compress image - no valid output generated"}

Unachievable == Terminal /\ input.decodable /\ hist.decodes = 1 /\ AlwaysOversized

C5_AlwaysFailedToCompress ==
    Unachievable => (pc = "rejected" /\ SaysFailedToCompress(outcome.msg))

\* C5 amended: whenever every encode result is over the budget, the call
\* rejects; the message contains 'Failed to compress image' when the final
\* working format is lossy (negotiated, or the fallback after PNG), and is 'PNG
\* image too large - ...' when the working format is PNG without lossy fallback.
C5_MessageByFormat ==
    Unachievable =>
        /\ pc = "rejected"
        /\ bestFormat # "png" => SaysFailedToCompress(outcome.msg)
        /\ bestFormat = "png" =>
              /\ outcome.msg = "PNG image too large - consider using a lossy format or reducing dimensions"
              /\ FirstLossy(Candidates(opts.preferredFormat), formatSupport) = NoFormat

\* A rejection after the PNG fallback, every PNG and lossy result being oversized.
C5_Witness ==
    /\ Unachievable
    /\ hist.switches = 1 /\ hist.pngLarge = 1 /\ hist.over >= 3
    /\ SaysFailedToCompress(outcome.msg)

\* C6: termination.  Under fair delivery of the callbacks every call ends:
\* it resolves with a File within the budget or rejects with an error.
Ended ==
    \/ pc = "resolved" /\ outcome.kind = "file" /\ outcome.blob.size <= Budget
    \/ pc = "rejected" /\ outcome.kind = "error"

C6_Termination == <>Ended

\* A call that ended at the attempt ceiling after a format switch and a failed encode.
C6_Witness ==
    /\ pc = "rejected"
    /\ attempts = maxAttempts
    /\ hist.switches = 1 /\ hist.null >= 1 /\ hist.over >= 1

\* C7 as claimed: with preferredFormat = 'png' negotiated, the PNG encoding over
\* the budget, webp supported and a webp encoding within the budget existing at
\* the same canvas size, the call resolves with a webp result.  Stated for the
\* synthetic encoder, whose size base + q does not depend on the canvas: a
\* fitting webp encoding exists when the one at minQuality fits.
PngTooLargeWebpAvailable ==
    /\ opts.preferredFormat = "png"
    /\ hist.firstFormat = "png"
    /\ hist.pngLarge >= 1
    /\ "webp" \in runtime.supported

C7_FallbackSucceeds ==
    ( /\ PngTooLargeWebpAvailable
      /\ runtime.encoder.kind = "mono"
      /\ opts.minQuality <= opts.quality
      /\ runtime.encoder.base + opts.minQuality <= Budget
      /\ Terminal )
    => (pc = "resolved" /\ outcome.blob.type = "webp")

\* C7 amended: in that situation the call switches to webp, once, and repeats
\* the attempt at the canvas size of the PNG attempt; if that webp quality
\* search returns a blob, the call resolves with it, a webp File within the
\* budget; an error reaches the caller only after that search has failed and
\* the attempts that follow it have failed too.
C7_FallbackToWebp ==
    PngTooLargeWebpAvailable =>
        /\ bestFormat = "webp"
        /\ hist.switches = 1
        /\ (pc = "search" /\ hist.searches = 1) =>
              <<canvas.width, canvas.height>> = hist.pngCanvas
        /\ (Terminal /\ hist.searches = 1) =>
              /\ pc = "resolved"
              /\ outcome.blob.type = "webp"
              /\ outcome.blob.size <= Budget
              /\ <<newWidth, newHeight>> = hist.pngCanvas
        /\ pc = "rejected" => (hist.searches = 2 /\ attempts = 3)

\* The call resolved with the webp blob of the search at the PNG canvas size.
C7_Witness ==
    /\ PngTooLargeWebpAvailable
    /\ pc = "resolved"
    /\ hist.searches = 1
    /\ outcome.blob.type = "webp"
    /\ {"avif", "jpeg"} \subseteq runtime.supported

\* C8: format negotiation.  The working format chosen before the first attempt
\* is the first supported entry of [preferred, webp, avif, png, jpeg], and jpeg
\* when no entry is supported.
PriorityPick ==
    LET list == <<opts.preferredFormat, "webp", "avif", "png", "jpeg">>
        hits == {i \in 1..5 : list[i] \in runtime.supported}
    IN  IF hits = {} THEN "jpeg"
        ELSE list[CHOOSE i \in hits : \A j \in hits : i <= j]

C9_FallbackIsJpeg ==
    (pc = "decode" /\ opts.preferredFormat \notin runtime.supported) =>
        bestFormat = "jpeg"

\* C10: dimension invariant.  In every attempt the canvas drawn and encoded is
\* at most maxWidth wide and at most maxHeight (maxWidth when maxHeight is not
\* set) high: initially, after the quick downscale and after every retry.
HeightLimit == IF opts.maxHeight # 0 THEN opts.maxHeight ELSE opts.maxWidth

C10_DimensionInvariant ==
    /\ canvas # NoCanvas =>
          (canvas.width <= opts.maxWidth /\ canvas.height <= HeightLimit)
    /\ pc \in {"loop", "png", "search"} =>
          (newWidth <= opts.maxWidth /\ newHeight <= HeightLimit)

\* The third canvas of a call whose source was quick-downscaled, still as high
\* as a retry leaves it, the first canvas having had the full height limit.
C10_Witness ==
    /\ hist.draws = 3
    /\ origWidth < imageBitmap.width
    /\ opts.resizeMode = "cover"
    /\ opts.maxHeight = 3
    /\ canvas.height = Downscale(Downscale(HeightLimit))
    /\ canvas.width >= 1

\* C11 as claimed: monotonic quality search accuracy.  With the synthetic
\* encoder (size = base + q, non-decreasing in the quality) and a budget some
\* quality of [minQuality, quality] meets, the quality of the blob the search
\* returns is within 0.05 of the true optimum, the largest quality of the range
\* whose encoding fits.
FitsAt(q) == runtime.encoder.base + q <= Budget

\* The largest quality whose encoding fits: base + q <= Budget.
Threshold == Budget - runtime.encoder.base

\* Some quality of [minQuality, quality] fits.
BudgetReachable ==
    /\ runtime.encoder.kind = "mono"
    /\ opts.minQuality <= opts.quality
    /\ FitsAt(opts.minQuality)

\* The largest quality of [minQuality, quality] whose encoding fits.
Optimum == IF Threshold < opts.quality THEN Threshold ELSE opts.quality

\* The quality search of the current attempt has returned its blob.
SearchReturned ==
    /\ pc = "loop"
    /\ bestBlob # NoBlob
    /\ bestFormat \in LossyFormats

Distance(a, b) == IF a >= b THEN a - b ELSE b - a

C11_WithinOneStep ==
    (BudgetReachable /\ SearchReturned) =>
        Distance(Optimum, bestBlob.quality) <= Q(5)

\* C11 amended: with that encoder, the quality of the blob the search returns
\* is at most the optimum and less than 0.1 (two steps) below it, and the
\* search returns a blob in the first attempt whenever the optimum is at least
\* minQuality + 0.05.
C11_WithinTwoSteps ==
    BudgetReachable =>
        /\ SearchReturned =>
              /\ bestBlob.quality <= Optimum
              /\ Optimum - bestBlob.quality < Q(10)
              /\ FitsAt(bestBlob.quality)
        /\ (Optimum >= opts.minQuality + Q(5) /\ pc \in {"loop", "resolved", "rejected"}
             /\ hist.searches >= 1 /\ ~SearchReturned) =>
              (pc = "resolved" /\ hist.searches = 1)

\* The search returned a blob more than one step below the optimum.
C11_Witness ==
    /\ BudgetReachable /\ SearchReturned
    /\ Optimum - bestBlob.quality > Q(5)
    /\ hist.searches = 1

\* C12: the compressor never encodes below the minimum quality.  Every
\* quality passed to canvas.toBlob by a quality search lies in [minQuality,
\* quality], in every iteration of every attempt, also when no result ever
\* fits the budget.
C12_NeverBelowMinQuality ==
    /\ hist.qmin # -1 =>
          /\ opts.minQuality <= hist.qmin
          /\ hist.qmax <= opts.quality
    /\ (pc = "search" /\ low <= high) =>
          /\ opts.minQuality <= Mid(low, high)
          /\ Mid(low, high) <= opts.quality

\* Three searches of [0.1, 0.9] that never met the budget and went down to
\* quality 0.10625, the lowest midpoint of that range.
C12_Witness ==
    /\ pc = "rejected"
    /\ hist.searches = 3
    /\ AlwaysOversized
    /\ opts.minQuality = Q(10)
    /\ hist.qmin = Q(10) + 40
    /\ hist.qmax = Q(50)

\* C13: concurrent calls are independent.  Interleaved at every suspension
\* point with the probes of other calls, with which it shares the format-support
\* cache only, the call ends as it does alone: it reads the support table its
\* own five probes would give it, negotiates the same working format and the
\* same fallback, starts its attempts from the same state and resolves with the
\* same dimensions and bytes; without a 2d context it is rejected before any
\* decode.  No step of another call changes anything of the call but the cache.
\* The support table of a call that runs alone, all five probes answering.
AloneSupport ==
    [i \in 1..5 |-> ProbeAnswer(Candidates(opts.preferredFormat)[i])]

AloneFormat == FirstSupported(Candidates(opts.preferredFormat), AloneSupport)

\* What the call owns: everything but the cache and the probes of the others.
callVars == <<opts, input, runtime, pc, probes, formatSupport, bestFormat,
              imageBitmap, origWidth, origHeight, newWidth, newHeight, attempts,
              bestBlob, low, high, searchBlob, canvas, outcome, hist>>

AsAlone ==
    /\ \A f \in DOMAIN formatSupportCache : formatSupportCache[f] = (f \in runtime.supported)
    /\ ~runtime.hasContext2d =>
          /\ pc \in {"start", "rejected"}
          /\ pc = "rejected" =>
                (outcome.msg = "Failed to get canvas context" /\ hist.decodes = 0)
    /\ (runtime.hasContext2d /\ pc \notin {"start", "probing"}) =>
          /\ formatSupport = AloneSupport
          /\ hist.firstFormat = AloneFormat
          /\ hist.switches = 0 => bestFormat = AloneFormat
          /\ hist.switches # 0 =>
                /\ AloneFormat = "png"
                /\ bestFormat = FirstLossy(Candidates(opts.preferredFormat), AloneSupport)
    /\ pc = "decode" =>
          /\ <<origWidth, origHeight, newWidth, newHeight>> = <<0, 0, 0, 0>>
          /\ attempts = 0 /\ bestBlob = NoBlob /\ canvas = NoCanvas
          /\ outcome = Pending
    \* the synthetic encoder fits up to quality 0.6: alone, the first search of
    \* [0.1, 0.9] probes 0.5, 0.725, 0.6125, 0.55625 and returns the last
    /\ (pc = "resolved" /\ bestFormat # "png") =>
          /\ hist.searches = 1
          /\ outcome.blob.quality = Q(55) + 40
          /\ outcome.blob.size = runtime.encoder.base + outcome.blob.quality
          /\ outcome.blob.type = BlobType(bestFormat)
          /\ <<newWidth, newHeight>> =
                CanvasSize(PreDownscale(input.width, input.height)[1],
                           PreDownscale(input.width, input.height)[2])

OtherStep == others' # others

C13_Independent == [](AsAlone) /\ [][OtherStep => UNCHANGED callVars]_vars

\* The call negotiated from a support table it read partly from the cache other
\* calls had filled and got partly from its own probes, while probes of other
\* calls were still in flight; the cached entry decided the format.
C13_Witness ==
    /\ pc = "decode"
    /\ \E i, j \in 1..5 : probes[i] = "hit" /\ probes[j] = "done"
    /\ others # {}
    /\ probes[1] = "done" /\ ~formatSupport[1]
    /\ probes[2] = "hit" /\ formatSupport[2]

BudgetMet == runtime.encoder.base + Q(60) = Budget
\* The call kept the PNG it negotiated: its one PNG result was within budget.
PngKept == hist.firstFormat = "png" /\ hist.switches = 0 /\ hist.fit >= 1
\* 1 when the call made a PNG attempt before its lossy ones, else 0.
PngTries == IF hist.firstFormat = "png" THEN 1 ELSE 0

SameWithAndWithoutDebug ==
    /\ hist.probes = 5
    /\ hist.decodes = 1
    /\ ~input.decodable =>
          /\ pc = "rejected" /\ outcome.msg = "createImageBitmap rejected"
          /\ hist.draws = 0 /\ hist.encodes = 0
    /\ (input.decodable /\ PngKept) =>
          /\ pc = "resolved"
          /\ outcome.blob.type = "png" /\ outcome.name = <<"photo", "png">>
          /\ hist.draws = 1 /\ hist.encodes = 1
          /\ <<canvas.width, canvas.height>> = <<8, 6>>
    /\ (input.decodable /\ ~PngKept /\ BudgetMet) =>
          /\ pc = "resolved"
          /\ outcome.blob = [size |-> runtime.encoder.base + Q(55) + 40,
                              type |-> "webp", quality |-> Q(55) + 40]
          /\ outcome.name = <<"photo", "webp">>
          /\ hist.draws = 1 + PngTries /\ hist.encodes = 4 + PngTries
          /\ <<hist.qmin, hist.qmax>> = <<Q(50), Q(72) + 32>>
          /\ <<canvas.width, canvas.height>> = <<8, 6>>
    /\ (input.decodable /\ ~PngKept /\ ~BudgetMet) =>
          /\ pc = "rejected"
          /\ outcome.msg = "Failed to compress image within size constraints"
          /\ hist.draws = 3 /\ hist.searches = 3 - PngTries
          /\ hist.encodes = MaxCount /\ hist.fit = 0
          /\ <<hist.qmin, hist.qmax>> = <<Q(10) + 40, Q(50)>>
          /\ <<canvas.width, canvas.height>> =
                IF PngTries = 1 THEN <<6, 4>> ELSE <<4, 2>>

C15_DebugNoninterference == Terminal => SameWithAndWithoutDebug

\* A call with debug on that wrote all its messages: started, format, output
\* format, the two of the PNG fallback, completion.
C15_Witness ==
    /\ pc = "resolved"
    /\ opts.debug
    /\ hist.switches = 1
    /\ hist.logs = 6

\* C16: format fallback determinism.  The working format a call negotiates is
\* a function of the preferred format and the set of supported formats alone:
\* it is the same whether the call found the format-support cache empty, partly
\* filled or full, and in whatever order its probes and those of other calls
\* completed.
CacheAtStart ==
    IF \A i \in 1..5 : probes[i] = "hit" THEN "full"
    ELSE IF \E i \in 1..5 : probes[i] = "hit" THEN "partial"
    ELSE "empty"

C16_NegotiationDeterministic ==
    \A start \in {"empty", "partial", "full"} :
        (pc \notin {"start", "probing"} /\ runtime.hasContext2d /\ CacheAtStart = start) =>
            hist.firstFormat = PriorityPick

\* A negotiation answered from a full cache: neither the preferred format nor
\* webp is supported, avif is.
C16_Witness ==
    /\ pc = "decode"
    /\ CacheAtStart = "full"
    /\ opts.preferredFormat = "jpeg"
    /\ runtime.supported = {"avif", "png"}
    /\ bestFormat = "avif"

\* C17 as claimed: trivial fit.  With a lossy format negotiated, once the
\* quality search on the initial canvas has found a quality whose encoding fits
\* the budget, the call is accepted on the first attempt: one draw, no 0.9
\* downscale, a canvas of round(orig * scale) with scale = min(maxWidth /
\* origWidth, maxHeight / origHeight, 1), which keeps the aspect ratio.
\* min(maxWidth / ow, maxHeight / oh, 1) as a fraction.
ClaimedScale(ow, oh) ==
    LET a == <<opts.maxWidth, ow>>
        b == <<HeightLimit, oh>>
        m == IF a[1] * b[2] <= b[1] * a[2] THEN a ELSE b
    IN  IF m[1] <= m[2] THEN m ELSE <<1, 1>>

\* round(orig * scale), both dimensions.
ClaimedCanvas ==
    LET sc == ClaimedScale(origWidth, origHeight)
    IN  <<(2 * origWidth * sc[1] + sc[2]) \div (2 * sc[2]),
          (2 * origHeight * sc[1] + sc[2]) \div (2 * sc[2])>>

\* Both dimensions are within half a pixel of the same multiple of the source's:
\* |w * oh - h * ow| <= (ow + oh) / 2.
AspectKept ==
    2 * Distance(newWidth * origHeight, newHeight * origWidth)
        <= origWidth + origHeight

AcceptedAtOnce ==
    /\ attempts = 0
    /\ hist.draws = 1
    /\ <<newWidth, newHeight>> = ClaimedCanvas
    /\ <<canvas.width, canvas.height>> = ClaimedCanvas
    /\ AspectKept
    /\ Terminal => pc = "resolved"

\* The first quality search, the first attempt of the call, has found a fit.
FirstSearchFoundFit ==
    /\ hist.firstFormat \in LossyFormats
    /\ hist.searches = 1
    /\ searchBlob # NoBlob

FirstSearchReturned ==
    /\ hist.firstFormat \in LossyFormats
    /\ hist.searches = 1
    /\ bestBlob # NoBlob

SecondCall == hist.calls = 2

C18_RecompressNotLarger ==
    (SecondCall /\ Terminal) =>
        /\ pc = "resolved"
        /\ outcome.blob.size <= hist.given

\* C18 amended: with an encoder whose result depends only on the format, the
\* canvas size and the quality, the second call does not fail; it draws the
\* File at its own size and returns a File within the budget of the second
\* call; with the same budget and no PNG fallback that File has the size of
\* the one given.  With a looser budget, or with PNG tried first on the output
\* of a PNG fallback, the File returned can be larger than the one given.
C18_RecompressWithinBudget ==
    SecondCall =>
        /\ pc # "rejected"
        /\ pc = "resolved" => outcome.blob.size <= opts.maxSizeMB * 1024 * 1024
        /\ canvas # NoCanvas =>
              /\ <<canvas.width, canvas.height>> = <<input.width, input.height>>
              /\ attempts <= 1 /\ hist.draws <= 2 /\ hist.searches <= 1
        /\ (pc = "resolved" /\ hist.loosened = 0 /\ hist.switches = 0) =>
              outcome.blob.size = hist.given

\* A second call with a budget of 2 MB that returned a webp File larger than
\* the webp File of the first call, which it was given.
C18_Witness ==
    /\ SecondCall
    /\ pc = "resolved"
    /\ hist.loosened = 1
    /\ hist.firstFormat = "webp"
    /\ outcome.blob.type = "webp"
    /\ outcome.blob.size > hist.given

\* C19: in resize mode 'fill' the image is stretched to exactly fit maxWidth /
\* maxHeight: for every source size the canvas drawn and encoded in the first
\* attempt is maxWidth wide and maxHeight (maxWidth when maxHeight is not set)
\* high, and the image covers it.
C19_FillExact ==
    (opts.resizeMode = "fill" /\ hist.draws = 1) =>
        /\ canvas.width = opts.maxWidth
        /\ canvas.height = HeightLimit
        /\ canvas.rect.dw = <<opts.maxWidth, 1>>
        /\ canvas.rect.dh = <<HeightLimit, 1>>

\* C20: in the resize modes 'inside' and 'outside' the drawn content never
\* exceeds the original dimensions: in every attempt the destination rectangle
\* of drawImage is at most as wide and as high as the source bitmap.
C20_NeverBeyondOriginal ==
    (opts.resizeMode \in {"inside", "outside"} /\ canvas # NoCanvas) =>
        /\ canvas.rect.dw[2] > 0 /\ canvas.rect.dh[2] > 0
        /\ canvas.rect.dw[1] <= imageBitmap.width * canvas.rect.dw[2]
        /\ canvas.rect.dh[1] <= imageBitmap.height * canvas.rect.dh[2]

\* The third canvas of an 'outside' call, smaller than the source after the
\* quick downscale and two retries: the image is drawn at its original size.
C20_Witness ==
    /\ opts.resizeMode = "outside"
    /\ hist.draws = 3
    /\ origWidth < imageBitmap.width
    /\ canvas.width >= 1 /\ canvas.width < origWidth
    /\ canvas.rect.dw = <<imageBitmap.width, 1>>
    /\ canvas.rect.dh = <<imageBitmap.height, 1>>

\* C21: derived filename.  Without an outputFilename and with a File as input,
\* the output name is the original filename with its extension replaced by the
\* extension of the final working format ('jpg' for jpeg, the fallback format's
\* after a PNG fallback), also for names with more than one dot; for a Blob it
\* is image.<ext>; a given outputFilename is used unchanged.
\* The name without its last dot-separated piece, the extension; a name without
\* a dot has none.
WithoutExtension(name) ==
    IF Len(name) > 1 THEN SubSeq(name, 1, Len(name) - 1) ELSE name

FinalExtension == IF bestFormat = "jpeg" THEN "jpg" ELSE bestFormat

C21_DerivedFilename ==
    pc = "resolved" =>
        outcome.name =
            IF opts.outputFilename # <<>> THEN opts.outputFilename
            ELSE IF input.isFile THEN WithoutExtension(input.name) \o <<FinalExtension>>
            ELSE <<"image", FinalExtension>>

\* C22: nodeCompress budget invariant.  Every call of nodeCompress that
\* resolves returns a buffer of at most maxSizeMB * 1024 * 1024 bytes, whatever
\* the encoder does and whatever the preferred format; when no quality level
\* gives such a buffer the call rejects.
NodeTerminal == nodePc \in {"resolved", "rejected"}

C22_NodeBudgetInvariant ==
    /\ nodePc = "resolved" =>
          /\ nodeOutcome.kind = "buffer"
          /\ nodeOutcome.length >= 0
          /\ nodeOutcome.length <= nodeOptions.maxSizeMB * 1024 * 1024
    /\ (NodeTerminal /\ nodeHist.fit = 0) =>
          (nodePc = "rejected" /\ nodeOutcome.kind = "error")

\* A call that resolved at quality 10, its last level, with a buffer exactly at
\* the budget, after oversized buffers and a failed encode.
C22_Witness ==
    /\ nodePc = "resolved"
    /\ nodeHist.qualities = <<80, 70, 60, 50, 40, 30, 20, 10>>
    /\ nodeHist.over >= 1 /\ nodeHist.failed >= 1
    /\ nodeOutcome.length = nodeOptions.maxSizeMB * 1024 * 1024

\* C23: nodeCompress starts from the quality option (default 80, range 1 to
\* 100): the first encode of a call is made at quality = options.quality and
\* the later ones at lower qualities only.
C23_StartsAtQualityOption ==
    nodeHist.qualities # <<>> =>
        /\ nodeHist.qualities[1] = nodeOptions.quality
        /\ \A i \in 2..Len(nodeHist.qualities) :
              nodeHist.qualities[i] < nodeHist.qualities[i - 1]

\* C24: nodeCompress rejects for an unsupported output format.  When the
\* encoder fails for the preferred format at every quality level, the call
\* rejects with a CompressionError and never resolves with a buffer.
EncoderAlwaysFails == nodeHist.failed = Len(nodeHist.qualities)

C24_UnsupportedFormatRejects ==
    EncoderAlwaysFails =>
        /\ nodePc # "resolved"
        /\ nodeOutcome.kind # "buffer"
        /\ nodePc = "rejected" => nodeOutcome.name = "CompressionError"
        /\ (nodePc = "rejected" /\ nodeHist.qualities # <<>>) =>
              /\ nodeHist.qualities = <<80, 70, 60, 50, 40, 30, 20, 10>>
              /\ nodeOutcome.msg = "Failed to compress image within size constraints"

\* The call for a format sharp cannot write, rejected after all eight quality
\* levels failed.
C24_Witness ==
    /\ nodePc = "rejected"
    /\ nodeOptions.preferredFormat = "unsupported"
    /\ nodeHist.failed = 8
    /\ nodeOutcome.name = "CompressionError"

\* C25 as claimed: oversized lossless result without fallback.  When the
\* working format is png, the PNG encode exceeds the budget and no lossy format
\* is reported supported, the call surfaces an error without any downscale
\* retry: no further draw or encode at reduced dimensions.
\* PNG was negotiated, its first encode was over the budget, no encode failed
\* and the runtime supports no lossy format.
PngOversizedNoFallback ==
    /\ hist.firstFormat = "png"
    /\ hist.pngLarge >= 1
    /\ hist.null = 0
    /\ runtime.supported \cap {"jpeg", "webp", "avif"} = {}

C25_NoDownscaleRetry ==
    PngOversizedNoFallback =>
        /\ pc = "rejected"
        /\ hist.draws = 1 /\ hist.encodes = 1

\* A dimension after n failed attempts: floor(0.9 * floor(0.9 * x)) each time.
RECURSIVE ShrunkTwice(_, _)
ShrunkTwice(x, n) ==
    IF n = 0 THEN x ELSE ShrunkTwice((((x * 9) \div 10) * 9) \div 10, n - 1)

\* C25 amended: in that situation the call stays with png and retries at
\* reduced dimensions: after each oversized PNG encode but the third, both
\* dimensions are shrunk to floor(0.9 * floor(0.9 * x)) and the PNG is drawn
\* and encoded again; the call resolves with the first PNG within the budget
\* and rejects with 'PNG image too large - ...' after the third oversized one.
C25_PngRetriedDownscaled ==
    PngOversizedNoFallback =>
        /\ bestFormat = "png" /\ hist.switches = 0 /\ hist.searches = 0
        /\ attempts = hist.pngLarge
        /\ hist.draws <= 3
        /\ pc = "png" =>
              /\ hist.draws = attempts + 1
              /\ canvas.width = ShrunkTwice(hist.pngCanvas[1], attempts)
              /\ canvas.height = ShrunkTwice(hist.pngCanvas[2], attempts)
        /\ pc = "rejected" =>
              /\ hist.pngLarge = 3 /\ hist.draws = 3 /\ hist.encodes = 3
              /\ outcome.msg = "PNG image too large - consider using a lossy format or reducing dimensions"
        /\ pc = "resolved" =>
              /\ hist.fit = 1 /\ hist.draws = hist.pngLarge + 1
              /\ outcome.blob.type = "png"
              /\ outcome.blob.size <= Budget
              /\ canvas.width = ShrunkTwice(hist.pngCanvas[1], hist.pngLarge)
              /\ canvas.height = ShrunkTwice(hist.pngCanvas[2], hist.pngLarge)

\* The third PNG, on a canvas shrunk twice from 8 x 6 to 4 x 2, was within the
\* budget after two oversized ones.
C25_Witness ==
    /\ PngOversizedNoFallback
    /\ pc = "resolved"
    /\ hist.pngLarge = 2 /\ hist.draws = 3
    /\ hist.pngCanvas[1] > canvas.width /\ canvas.width >= 1
    /\ outcome.blob.type = "png"

\* C26 as claimed: an encode failure on the lossless path is fatal.  When the
\* working format is png and the encoder itself fails (it delivers no blob),
\* the call rejects without any further draw or encode, neither in another
\* format nor at reduced dimensions.
\* PNG was negotiated and a PNG encode delivered no blob.
PngEncodeFailed == hist.firstFormat = "png" /\ hist.pngNull >= 1

C26_PngEncodeFailureFatal ==
    PngEncodeFailed =>
        /\ pc = "rejected"
        /\ hist.draws = 1 /\ hist.encodes = 1
        /\ hist.switches = 0

\* The lossy formats the runtime supports.
SupportedLossy == runtime.supported \cap {"jpeg", "webp", "avif"}

\* C26 amended: a PNG encode that delivers no blob is handled like one that is
\* too large.  In the first attempt, with a lossy format reported supported,
\* the call switches to it and draws and searches again, at the same canvas
\* size; otherwise, unless it was the third attempt, both dimensions are shrunk
\* to floor(0.9 * floor(0.9 * x)) and PNG is drawn and encoded again.  The
\* call rejects only when its third attempt fails.
C26_PngEncodeFailureRetried ==
    PngEncodeFailed =>
        /\ SupportedLossy # {} =>
              /\ hist.switches = 1
              /\ bestFormat \in SupportedLossy
              /\ hist.pngNull = 1 /\ hist.pngLarge = 0
              /\ hist.searches = 0 =>
                    (pc = "loop" /\ attempts = 1 /\ <<newWidth, newHeight>> = ClaimedCanvas)
              /\ (hist.searches = 1 /\ pc = "search") =>
                    (hist.draws = 2 /\ <<canvas.width, canvas.height>> = ClaimedCanvas)
        /\ SupportedLossy = {} =>
              /\ hist.switches = 0 /\ bestFormat = "png"
              /\ attempts = hist.pngNull + hist.pngLarge
              /\ pc = "png" =>
                    /\ hist.draws = attempts + 1
                    /\ canvas.width = ShrunkTwice(ClaimedCanvas[1], attempts)
                    /\ canvas.height = ShrunkTwice(ClaimedCanvas[2], attempts)
        /\ pc = "rejected" => (attempts = 3 /\ hist.draws = 3)
        /\ pc = "resolved" => outcome.blob.size <= Budget

\* A File in the fallback format, found at the canvas size of the PNG attempt
\* whose encode had delivered no blob.
C26_Witness ==
    /\ PngEncodeFailed
    /\ pc = "resolved"
    /\ hist.switches = 1 /\ hist.searches = 1 /\ hist.draws = 2
    /\ outcome.blob.type = "webp"
    /\ <<canvas.width, canvas.height>> = ClaimedCanvas

\* C27 as claimed: encode failure on the lossy path.  When the encoder delivers
\* no blob during a quality search, the search stops at once and the failure
\* triggers a format fallback and is then fatal; it is not answered by
\* downscaling the canvas and repeating the search in the same format.
\* The step in which a toBlob of a quality search delivers no blob.
LossyEncodeFails == pc = "search" /\ hist'.null > hist.null

C27_LossyEncodeFailureFatal ==
    [][LossyEncodeFails =>
          /\ pc' # "search"
          /\ (pc' = "rejected" \/ bestFormat' # bestFormat)
          /\ newWidth' = newWidth /\ newHeight' = newHeight]_vars

\* C27 amended: when the encoder delivers no blob during a quality search, the
\* search stops at once, the blob it had found (if any) is dropped and the
\* attempt counts as failed.  The format stays.  Unless it was the third
\* attempt, both dimensions are shrunk to floor(0.9 * floor(0.9 * x)) and the
\* search is repeated in the same format; after the third attempt the call
\* rejects with 'Compression failed for image/<format>'.
C27_LossyEncodeFailureRetried ==
    [][LossyEncodeFails =>
          /\ pc' # "search"
          /\ attempts' = attempts + 1
          /\ bestFormat' = bestFormat
          /\ bestBlob' = NoBlob
          /\ attempts' < 3 =>
                /\ pc' = "loop"
                /\ newWidth' = (((newWidth * 9) \div 10) * 9) \div 10
                /\ newHeight' = (((newHeight * 9) \div 10) * 9) \div 10
          /\ attempts' >= 3 =>
                /\ pc' = "rejected"
                /\ outcome'.msg = "Compression failed for"
                /\ outcome'.format = bestFormat
                /\ newWidth' = newWidth /\ newHeight' = newHeight]_vars

\* The second search of a call, in the format and on the shrunk canvas, after
\* the first had found a fitting blob and then got no blob from the encoder.
C27_Witness ==
    /\ pc = "search"
    /\ hist.firstFormat = "webp" /\ bestFormat = "webp"
    /\ hist.searches = 2
    /\ hist.null = 1 /\ hist.fit >= 1 /\ hist.over = 0
    /\ canvas.width = ShrunkTwice(ClaimedCanvas[1], 1)
    /\ canvas.height = ShrunkTwice(ClaimedCanvas[2], 1)
    /\ canvas.width < ClaimedCanvas[1]

\* C28: retry downscale step.  After a lossy attempt that yields no usable
\* result (and is not the last), the canvas of the next attempt is the previous
\* one shrunk by one 0.9 step in each axis: floor(0.9 * width) by
\* floor(0.9 * height).  Stated for the second attempt, whose predecessor had
\* the initial canvas.
C28_OneStepPerRetry ==
    (hist.firstFormat \in {"jpeg", "webp", "avif"} /\ hist.draws = 2) =>
        /\ canvas.width = (ClaimedCanvas[1] * 9) \div 10
        /\ canvas.height = (ClaimedCanvas[2] * 9) \div 10

\* C29: attempt dimensions stay positive.  In every attempt of every call the
\* canvas width and height handed to draw and encode are integers >= 1, for
\* every source of at least 1 x 1 and valid maxWidth, maxHeight and
\* downscaleDivisor: after the floored quick downscale, the rounded canvas
\* sizing and the floored retry downscales.
C29_DimensionsPositive ==
    ( /\ input.width >= 1 /\ input.height >= 1
      /\ opts.maxWidth >= 1 /\ opts.maxHeight >= 0 /\ opts.downscaleDivisor >= 1
      /\ canvas # NoCanvas )
    => (canvas.width >= 1 /\ canvas.height >= 1)

\* C30: PNG fallback step.  The format switch happens at most once per call,
\* only after the first failed attempt and only from png to the first supported
\* lossy format in priority order; the retry after the switch draws at exactly
\* the canvas dimensions of the failed PNG attempt, without a downscale, and the
\* working format never changes again.
\* The first supported lossy entry of [preferred, webp, avif, png, jpeg].
PriorityLossyPick ==
    LET list == <<opts.preferredFormat, "webp", "avif", "png", "jpeg">>
        hits == {i \in 1..5 : list[i] \in runtime.supported
                                /\ list[i] \in {"jpeg", "webp", "avif"}}
    IN  IF hits = {} THEN "none"
        ELSE list[CHOOSE i \in hits : \A j \in hits : i <= j]

\* The step that changes the working format once it is negotiated.
FormatSwitch == bestFormat # "none" /\ bestFormat' # bestFormat

SwitchedOnce ==
    /\ hist.switches <= 1
    /\ (hist.switches = 0 /\ pc \in {"loop", "png", "search", "resolved"}) =>
          bestFormat = hist.firstFormat
    /\ hist.switches = 1 =>
          /\ hist.firstFormat = "png"
          /\ bestFormat = PriorityLossyPick
          /\ bestFormat \in {"jpeg", "webp", "avif"}
          /\ attempts >= 1
          /\ hist.pngNull + hist.pngLarge = 1
          /\ (hist.searches = 1 /\ pc = "search") =>
                /\ hist.draws = 2
                /\ <<canvas.width, canvas.height>> = ClaimedCanvas

C30_PngFallbackStep ==
    /\ []SwitchedOnce
    /\ [][FormatSwitch =>
             /\ bestFormat = "png" /\ bestFormat' = PriorityLossyPick
             /\ attempts = 0 /\ attempts' = 1
             /\ hist.switches = 0 /\ hist'.switches = 1
             /\ hist.draws = 1
             /\ newWidth' = newWidth /\ newHeight' = newHeight
             /\ <<newWidth, newHeight>> = <<canvas.width, canvas.height>>
             /\ pc' = "loop"]_vars

\* The third attempt of a call: png preferred, its encode delivered no blob;
\* jpeg and avif are supported, webp is not, and avif, switched to after the
\* first attempt, is still the working format after its first search failed.
C30_Witness ==
    /\ opts.preferredFormat = "png"
    /\ runtime.supported = {"png", "jpeg", "avif"}
    /\ hist.switches = 1 /\ hist.pngNull = 1
    /\ bestFormat = "avif"
    /\ pc = "search" /\ attempts = 2
    /\ hist.searches = 2 /\ hist.draws = 3

\* C31: attempt ceiling.  No call of compressImage makes more than 3 draw and
\* encode attempts in total, whatever the encoder does; the failed PNG attempt
\* that triggers the format fallback is one of the 3.
C31_AttemptCeiling ==
    /\ hist.draws <= 3
    /\ hist.searches <= 3
    /\ attempts <= 3
    /\ hist.pngNull + hist.pngLarge + hist.searches <= 3
    /\ hist.switches = 1 =>
          /\ hist.pngNull + hist.pngLarge = 1
          /\ hist.searches <= 2
          /\ hist.draws <= 1 + hist.searches
    /\ pc \in {"png", "search"} => attempts < 3

\* A call rejected at the ceiling: one PNG attempt, the switch, two searches.
C31_Witness ==
    /\ pc = "rejected"
    /\ hist.switches = 1
    /\ hist.pngLarge = 1
    /\ hist.searches = 2
    /\ hist.draws = 3
    /\ attempts = 3

\* C32: the quality search returns the best tested candidate.  For every
\* encoder, monotone or not, each accepted candidate has a strictly higher
\* quality than every one accepted before it in the search, so the blob
\* returned is the one encoded at the highest quality, among those the search
\* tested, whose encoding is within the budget.
\* The step of a search that accepts a candidate after another.
AcceptsAnother == pc = "search" /\ searchBlob # NoBlob /\ searchBlob' # searchBlob

BestTestedKept ==
    /\ pc = "search" =>
          /\ searchBlob = NoBlob <=> hist.bestFit = -1
          /\ searchBlob # NoBlob =>
                /\ searchBlob.quality = hist.bestFit
                /\ searchBlob.size <= Budget
                /\ searchBlob.quality < low
    /\ (pc \in {"loop", "resolved"} /\ bestBlob # NoBlob /\ bestFormat # "png") =>
          /\ bestBlob.quality = hist.bestFit
          /\ bestBlob = searchBlob

C32_BestTestedReturned ==
    /\ []BestTestedKept
    /\ [][AcceptsAnother => searchBlob'.quality > searchBlob.quality]_vars

\* A search of [0.1, 0.9] whose encoder was not monotone: 0.5 was over the
\* budget, 0.275 within it, and the search returned a blob of higher quality
\* still, the third it accepted.
C32_Witness ==
    /\ pc = "loop" /\ bestBlob # NoBlob
    /\ bestFormat = "webp"
    /\ hist.searches = 1
    /\ hist.over >= 1 /\ hist.fit >= 3
    /\ hist.qmax = Q(50)
    /\ bestBlob.quality > Q(27) + 32
    /\ bestBlob.quality = hist.bestFit

\* C33 as claimed: the quality search fails only when the budget is unreachable
\* at minimum quality.  With the synthetic encoder (size = base + q, monotone in
\* the quality), if a search ends with no candidate, throwing 'Failed to
\* compress image within size constraints', the encoding at quality =
\* minQuality exceeds the budget.
\* A quality search of the call ended without a candidate: with the synthetic
\* encoder, which never fails, every failed attempt but the PNG one that
\* switched the format is such a search.
SearchEndedEmpty ==
    /\ runtime.encoder.kind = "mono"
    /\ opts.minQuality <= opts.quality
    /\ hist.searches >= 1
    /\ attempts > hist.switches

C33_FailsOnlyBelowMinQuality ==
    SearchEndedEmpty => ~FitsAt(opts.minQuality)

\* C33 amended: with that encoder and minQuality <= quality, if a search ends
\* with no candidate, the encoding at the lowest quality it tested exceeds the
\* budget, and that quality is less than 0.05 above minQuality: the encoding
\* at min(quality, minQuality + 0.05) exceeds the budget.  The encoding at
\* minQuality itself, which the search does not test, may fit.
C33_FailsOnlyNearMinQuality ==
    SearchEndedEmpty =>
        /\ hist.qmin >= opts.minQuality
        /\ hist.qmin < opts.minQuality + Q(5)
        /\ ~FitsAt(hist.qmin)
        /\ ~FitsAt(IF opts.quality < opts.minQuality + Q(5) THEN opts.quality
                   ELSE opts.minQuality + Q(5))
        /\ hist.fit = 0

\* Three searches of [0.1, 0.9] that ended empty with an encoder that fits at
\* quality 0.1: the lowest quality tested was 0.10625.
C33_Witness ==
    /\ SearchEndedEmpty
    /\ pc = "rejected"
    /\ outcome.msg = "Failed to compress image within size constraints"
    /\ hist.searches = 3
    /\ opts.minQuality = Q(10)
    /\ FitsAt(opts.minQuality)
    /\ hist.qmin = Q(10) + 40

\* C34 as claimed: probe deduplication.  Within one call the capability prober
\* is invoked at most once per distinct format name, also when preferredFormat
\* is itself one of webp, avif, png, jpeg and the format-support cache is empty
\* at the start of the call.
\* The entries of [preferred, webp, avif, png, jpeg] for which the call started
\* a probe.
ProbesStarted == {i \in 1..5 : probes[i] \in {"pending", "done"}}

ProbedFor(format) ==
    {i \in ProbesStarted :
        <<opts.preferredFormat, "webp", "avif", "png", "jpeg">>[i] = format}

C34_ProbedOncePerFormat ==
    \A format \in {"webp", "avif", "png", "jpeg"} :
        Cardinality(ProbedFor(format)) <= 1

\* C34 amended: the call invokes the prober once for every entry of the list
\* [preferred, webp, avif, png, jpeg] whose format is not in the cache when the
\* call starts, and for no other: the list is not deduplicated, so a preferred
\* format that is not cached is probed twice, every other format at most once,
\* and a call that finds the cache empty makes five probes for four formats.
StartsProbing == pc = "start" /\ pc' = "probing"

ProbesAsListed ==
    /\ \A format \in {"webp", "avif", "png", "jpeg"} :
          Cardinality(ProbedFor(format)) \in
              IF format = opts.preferredFormat THEN {0, 2} ELSE {0, 1}
    /\ pc \notin {"start", "rejected"} => hist.probes = Cardinality(ProbesStarted)
    /\ hist.probes <= 5

C34_ProbedAsListed ==
    /\ []ProbesAsListed
    /\ [][StartsProbing =>
             \A i \in 1..5 :
                 probes'[i] = "pending" <=>
                     <<opts.preferredFormat, "webp", "avif", "png", "jpeg">>[i]
                         \notin DOMAIN formatSupportCache]_vars

\* A call that preferred webp and found the cache empty: both webp entries of
\* the list were probed, five probes in all.
C34_Witness ==
    /\ pc = "decode"
    /\ opts.preferredFormat = "webp"
    /\ probes[1] = "done" /\ probes[2] = "done"
    /\ hist.probes = 5

\* C35: the format-support cache is append-only.  Under every interleaving of
\* the probes of one or several calls, an entry once written for a format is
\* never removed and never changes to another boolean (the prober answering
\* the same for a format every time), and every cached value is what the prober
\* reports for that format.
CacheTruthful ==
    \A format \in DOMAIN formatSupportCache :
        formatSupportCache[format] = (format \in runtime.supported)

CacheOnlyGrows ==
    \A format \in DOMAIN formatSupportCache :
        /\ format \in DOMAIN formatSupportCache'
        /\ formatSupportCache'[format] = formatSupportCache[format]

C35_CacheAppendOnly ==
    /\ [](CacheTruthful /\ DOMAIN formatSupportCache \subseteq {"webp", "avif", "png", "jpeg"})
    /\ [][CacheOnlyGrows]_vars

\* A full cache written by this call and by others, while a probe of this call
\* for a format already written by another call is still to answer: its answer
\* will write the entry again.
C35_Witness ==
    /\ DOMAIN formatSupportCache = {"webp", "avif", "png", "jpeg"}
    /\ pc = "probing"
    /\ \E i \in 1..5 : probes[i] = "pending"
    /\ \E i \in 1..5 : probes[i] = "done"
    /\ formatSupportCache["png"] /\ ~formatSupportCache["webp"]

\* C36 as stated: format negotiation never fails; for every runtime, any canvas
\* capability included, the probing step ends with a chosen working format and
\* never rejects the call.
NegotiationRejected == pc = "rejected" /\ hist.firstFormat = NoFormat

C36_NegotiationNeverFails == ~NegotiationRejected

\* C36, amended: negotiation rejects the call exactly when a candidate format is
\* not cached and the runtime gives no 2d context; the rejection carries
\* 'Failed to get canvas context' and precedes every probe, decode and draw.
\* In every other case the step ends with a format chosen: the first supported
\* candidate, jpeg when none is supported.
SomeUncached ==
    \E i \in 1..5 : ~CacheHas(<<opts.preferredFormat, "webp", "avif", "png", "jpeg">>[i])

LeavesStart == pc = "start" /\ pc' # "start"

NegotiationOutcome ==
    /\ NegotiationRejected =>
          /\ ~runtime.hasContext2d
          /\ outcome.kind = "error"
          /\ outcome.msg = "Failed to get canvas context"
          /\ hist.probes = 0 /\ hist.decodes = 0 /\ hist.draws = 0
    /\ (pc \notin {"start", "probing"} /\ ~NegotiationRejected) =>
          /\ hist.firstFormat = PriorityPick
          /\ hist.firstFormat \in {"webp", "avif", "png", "jpeg"}

C36_NegotiationFailsOnlyWithoutContext ==
    /\ []NegotiationOutcome
    /\ [][LeavesStart =>
             IF SomeUncached /\ ~runtime.hasContext2d
             THEN pc' = "rejected"
             ELSE pc' = "probing"]_vars
    /\ [][pc = "probing" => pc' \in {"probing", "decode"}]_vars

\* Nothing supported, a 2d context available: all five probes answered no and
\* jpeg was chosen.
C36_Witness ==
    /\ pc = "decode"
    /\ runtime.supported = {}
    /\ runtime.hasContext2d
    /\ \A i \in 1..5 : probes[i] = "done"
    /\ bestFormat = "jpeg"

\* C37: contain geometry.  In resize mode 'contain', for every source size and
\* every canvas of at least 1x1 the call draws on, the destination rectangle
\* fits the canvas (dw <= width, dh <= height), keeps the aspect ratio of the
\* source (dw/dh = sw/sh), touches the canvas in one axis at least (dw = width
\* or dh = height) and is centered: dx = (width - dw)/2 >= 0 and
\* dy = (height - dh)/2 >= 0.  Lengths are exact rationals.
HalfGap(side, d) == <<side * d[2] - d[1], 2 * d[2]>>

DrawnContain ==
    /\ canvas # NoCanvas
    /\ opts.resizeMode = "contain"
    /\ canvas.width >= 1 /\ canvas.height >= 1

SameRect(a, b) ==
    /\ FracEq(a.dx, b.dx) /\ FracEq(a.dy, b.dy)
    /\ FracEq(a.dw, b.dw) /\ FracEq(a.dh, b.dh)

RectFor(mode) ==
    DrawRect(mode, imageBitmap.width, imageBitmap.height, canvas.width, canvas.height)

C38_InsideEqualsContain ==
    canvas # NoCanvas =>
        /\ canvas.width <= imageBitmap.width
        /\ canvas.height <= imageBitmap.height
        /\ SameRect(RectFor("inside"), RectFor("contain"))
        /\ opts.resizeMode \in {"inside", "contain"} =>
              /\ SameRect(canvas.rect, RectFor("inside"))
              /\ SameRect(canvas.rect, RectFor("contain"))

\* Mode inside, a source that was not pre-downscaled, drawn letterboxed on the
\* smaller canvas of a retry.
C38_Witness ==
    /\ canvas # NoCanvas
    /\ opts.resizeMode = "inside"
    /\ hist.draws >= 2
    /\ origWidth = imageBitmap.width /\ origHeight = imageBitmap.height
    /\ canvas.width >= 1 /\ canvas.height >= 1
    /\ canvas.width < imageBitmap.width
    /\ canvas.rect.dx[1] > 0

====
